---- MODULE Spec2Model ----
(***************************************************************************)
(* ChainForensics: the UTXO traversal engine (app/core/tracer.py), the     *)
(* Electrum client it shares (app/core/electrs.py) and the KYC withdrawal  *)
(* analysis (app/core/kyc_trace.py).                                       *)
(*                                                                         *)
(* Spec           one trace_forward / trace_backward call of UTXOTracer,   *)
(*                against arbitrary node-RPC and Electrum responses.       *)
(* SpecClient     concurrent callers of the shared ElectrsClient.          *)
(* SpecWire       requests and header notifications on one connection.     *)
(* SpecFind       the history scan of find_spending_tx.                    *)
(* SpecCache      one _get_transaction call against the cache.             *)
(* SpecMix        a trace over a chain holding CoinJoin transactions.      *)
(* SpecDepth      the effective depth of a trace, for any argument.        *)
(* SpecTracers    the traces that go through the engine of get_tracer.     *)
(* SpecKyc        one trace_kyc_withdrawal call of KYCPrivacyTracer.       *)
(* SpecValue      the value factor of _calculate_path_confidence.          *)
(* SpecKycPair    two trace_kyc_withdrawal calls on the shared analyser.   *)
(***************************************************************************)
EXTENDS Integers, Sequences, FiniteSets, TLC

None == "None"

\* ------------------------------------------------------------------ bounds
\* Transaction ids the node and the Electrum server can answer about.
TxOrder == <<"ta", "tb", "tc", "td", "te">>
Tx == {TxOrder[i] : i \in 1..Len(TxOrder)}
\* The txids a scripthash history of the Electrum server names.
HistoryTx == {"ta", "tb", "tc"}
\* The transaction a trace starts from (the txids are interchangeable).
Seed == "ta"
\* Largest number of outputs of a decoded transaction.
MaxVout == 2
\* UTXOTracer.MAX_TRANSACTIONS_PER_TRACE (200 in tracer.py:134), scaled.
MAX_TRANSACTIONS_PER_TRACE == 5
\* UTXOTracer.MAX_QUEUE_SIZE (1000 in tracer.py:135), scaled.
MAX_QUEUE_SIZE == 4
\* settings.MAX_TRACE_DEPTH (50), scaled.
MAX_TRACE_DEPTH == 3
\* settings.DEFAULT_TRACE_DEPTH (10), scaled.
DEFAULT_TRACE_DEPTH == 1
\* UTXOTracer.MAX_CONSECUTIVE_ELECTRS_FAILURES (3 in tracer.py:136), scaled.
MAX_CONSECUTIVE_ELECTRS_FAILURES == 2

\* ElectrsClient.MAX_RETRIES
MAX_RETRIES == 3
\* ElectrsClient.RETRY_DELAY, in seconds
RETRY_DELAY == 1
\* Calls made on one connection, and header notifications the server pushes.
MaxWireCalls == 3
MaxNotifications == 2
\* Concurrent callers of the shared client.
NumCallers == 2
\* Logical calls (_call) made in one run, over all callers.
MaxCalls == 3
Callers == 1..NumCallers
\* Connections alive at one time: the client's, and one per caller still
\* reading from a connection the client has replaced.
Conns == 1 .. (NumCallers + 1)

\* Largest magnitude of a max_depth argument passed to the engine.
DepthRange == 30
\* KYCPrivacyTracer: the depth of the presets and their maximum (3, 6, 10,
\* 15 and 15 in the code), the transaction cap (300) and the queue cap (1000).
KYC_QUICK_DEPTH == 1
KYC_STANDARD_DEPTH == 2
KYC_DEEP_DEPTH == 3
KYC_THOROUGH_DEPTH == 4
KYC_MAX_DEPTH == 3
KYC_MAX_TRANSACTIONS == 8
KYC_MAX_QUEUE_SIZE == 6
\* Most outputs of one transaction that the chain has spent; the others are
\* unspent.
KycMaxSpent == 2
\* Electrum lookups one KYC trace makes when two traces share the analyser.
MaxKycLookups == 2
\* Largest amount, in satoshi, the value factor is computed for.
ValueRange == 20
\* COINJOIN_THRESHOLD in hundredths and MAX_COINJOINS_BEFORE_COLD
COINJOIN_THRESHOLD == 70
MAX_COINJOINS_BEFORE_COLD == 2
\* Deepest trace followed over a chain with CoinJoin transactions.
MixDepth == 2

\* max_depth values a caller passes: below 1, in range, above the maximum.
DepthArgs == -1 .. MAX_TRACE_DEPTH + 1

VARIABLES
    \* ---- one trace of UTXOTracer
    pc,                 \* "loop" (in the while loop), "done" (returned), "raised"
    direction,          \* "forward" | "backward"
    max_depth,          \* effective max_depth of the trace
    electrs,            \* TRUE iff _get_electrs() returned a client
    queue,              \* forward: <<txid, vout, depth>>; backward: <<txid, depth>>
    visited,            \* forward: set of <<txid, vout>>; backward: set of txid
    tx_count,
    consecutive_electrs_failures,
    electrs_disabled,
    electrs_lookup_count,
    lookup_log,         \* outcome of each _find_spending_tx_electrs call, in order
    result,             \* the TraceResult being built
    tx_cache,           \* UTXOTracer._tx_cache: the txids holding a decoded tx
    chain_nvout,        \* the chain: number of outputs of each tx (0: not yet read)
    chain_vin,          \* the chain: inputs of each tx (<<>>: not yet read)
    chain_shape,        \* the chain: output values and input count of each tx
    connected,          \* ElectrsClient._connected as left by the trace's lookups
    expired             \* TRUE once utcnow() - start_time > MAX_TRACE_TIME_SECONDS

VARIABLES
    \* ---- the shared ElectrsClient and its callers
    lock,               \* ElectrsClient._lock: 0 when free, else the holder
    reader,             \* ElectrsClient._reader: a connection, 0 for None
    writer,             \* ElectrsClient._writer: a connection, 0 for None
    conns,              \* per live connection: requests awaiting their response
                        \* line, failures of requests sent on it, writer closed
    request_id,         \* ElectrsClient._request_id
    callers             \* per caller, its position in _call and its locals

clientVars == <<lock, reader, writer, conns, request_id, callers>>

VARIABLES
    \* ---- the lines of one connection (the StreamReader's buffer)
    subscribed,         \* blockchain.headers.subscribe was sent on the connection
    inbox,              \* lines the server has sent, not yet read by readline()
    in_call,            \* the call in progress: its id and method, or NoCall
    unanswered,         \* requests the server has read but not yet answered
    notified,           \* header notifications the server has pushed so far
    returns             \* per completed call: its request, and the line it returned

wireVars == <<subscribed, inbox, in_call, unanswered, notified, returns>>

VARIABLES
    \* ---- one call of a function of the engine or the client
    args,               \* its arguments and the answers of its dependencies
    ret,                \* what it returned: Pending until it has
    cached              \* _tx_cache entry by entry: what each txid holds

callVars == <<args, ret, cached>>

\* What a trace leaves alone.
otherVars == <<clientVars, wireVars, callVars>>

traceVars == <<pc, direction, max_depth, electrs, queue, visited, tx_count,
               consecutive_electrs_failures, electrs_disabled,
               electrs_lookup_count, lookup_log, result, tx_cache,
               chain_nvout, chain_vin, chain_shape, connected, expired>>

vars == <<traceVars, clientVars, wireVars, callVars>>

\* ------------------------------------------------------------ data model
\* A warning of TraceResult.warnings: the message kind and the place it names.
Warn(kind, at) == [kind |-> kind, at |-> at]

\* TraceResult(...) as constructed at the start of a trace.
TraceResult(dir, depth, enabled) ==
    [direction |-> dir, max_depth |-> depth,
     nodes |-> <<>>, edges |-> <<>>,
     unspent_endpoints |-> <<>>, coinbase_origins |-> <<>>,
     coinjoin_txids |-> <<>>,
     total_transactions |-> 0, total_value_traced_sats |-> 0,
     warnings |-> IF dir = "forward" /\ ~enabled
                  THEN <<Warn("Electrs not available", <<>>)>> ELSE <<>>,
     hit_limit |-> FALSE, electrs_enabled |-> enabled]

UTXONode(txid, vout, status, depth, spent_by) ==
    [txid |-> txid, vout |-> vout, status |-> status, depth |-> depth,
     spent_by_txid |-> spent_by, coinjoin_score |-> 0, value_sats |-> 0]

\* the edge recorded as leaving output 0 of its transaction
MutTraceEdge(from_txid, from_vout, to_txid) ==
    [from_txid |-> from_txid, from_vout |-> 0, to_txid |-> to_txid,
     value_sats |-> 0]
\* TraceEdge(...), with the value_sats of an edge of trace_backward
TraceEdge(from_txid, from_vout, to_txid) ==
    [from_txid |-> from_txid, from_vout |-> from_vout, to_txid |-> to_txid,
     value_sats |-> 0]

\* A decoded transaction is a txid's entry of the chain: its inputs (a previous
\* txid or the coinbase marker) and the number of its outputs. The chain is
\* immutable, so each is fixed the first time the engine reads it.
\* A transaction spends outputs of transactions that precede it in the chain:
\* TxOrder lists the txids newest first.
Position(txid) == CHOOSE i \in 1..Len(TxOrder) : TxOrder[i] = txid
Inputs(txid) == {t \in Tx : Position(t) > Position(txid)} \cup {"coinbase"}
Vins(txid) == {<<x>> : x \in Inputs(txid)}
                \cup {<<x, y>> : x \in Inputs(txid), y \in Inputs(txid)}

\* What the score reads of a decoded transaction: the values of its outputs
\* in satoshi, in order, and the number of its inputs.
Shape(vout, nin) == [vout |-> vout, nin |-> nin]
\* int(out["value"] * 100_000_000): the node gives an amount as a JSON number
\* of BTC, read as a double; the product of the two doubles is cut to an
\* integer. TruncatedAmounts are the amounts below 0.01 BTC, in steps of
\* 0.0001 BTC, whose product falls just below the whole number of satoshi.
TruncatedAmounts ==
    {30000, 60000, 120000, 240000, 450000, 480000, 870000, 900000, 930000,
     960000}
MutIntSats(sats) == sats
IntSats(sats) == IF sats \in TruncatedAmounts THEN sats - 1 ELSE sats
\* sum(int(out["value"] * 100_000_000) for out in tx["vout"])
RECURSIVE TotalOutput(_)
TotalOutput(vout) ==
    IF vout = <<>> THEN 0 ELSE IntSats(Head(vout)) + TotalOutput(Tail(vout))
\* the amounts of the outputs, in satoshi, summed
RECURSIVE SumOfOutputs(_)
SumOfOutputs(vout) ==
    IF vout = <<>> THEN 0 ELSE Head(vout) + SumOfOutputs(Tail(vout))
\* Not yet read, in a chain of ordinary payments / in a chain with mixes.
UnreadOrdinary == Shape(<<>>, 1)
Unread == Shape(<<>>, 0)
\* Ordinary payments: one input, up to MaxVout outputs of different values.
OrdinaryShapes ==
    {Shape([i \in 1..n |-> 130000 * i - 10000], 1) : n \in 1..MaxVout}
\* A JoinMarket-like transaction (five equal outputs and change, three
\* inputs) and a Whirlpool mix (five outputs of the 0.001 BTC pool).
JoinMarketTx ==
    Shape(<<400000, 400000, 400000, 400000, 400000, 130000>>, 3)
WhirlpoolTx == Shape(<<100000, 100000, 100000, 100000, 100000>>, 5)
MixShapes == {JoinMarketTx, WhirlpoolTx}

\* A transaction is spent by transactions that follow it in the chain: a
\* forward trace reads TxOrder oldest first.
Spenders(txid) == {t \in Tx : Position(t) > Position(txid)}

\* the depth clamped from below as well
MutEffectiveDepth(given, arg) ==
    LET d == IF given THEN arg ELSE DEFAULT_TRACE_DEPTH
    IN IF d < 1 THEN 1 ELSE IF d < MAX_TRACE_DEPTH THEN d ELSE MAX_TRACE_DEPTH
\* if max_depth is None: max_depth = DEFAULT; max_depth = min(max_depth, MAX)
EffectiveDepth(given, arg) ==
    LET d == IF given THEN arg ELSE DEFAULT_TRACE_DEPTH
    IN IF d < MAX_TRACE_DEPTH THEN d ELSE MAX_TRACE_DEPTH

\* ------------------------------------------------------------------ Init
\* The client before its first call: ElectrsClient.__init__
NoConn == [pending |-> 0, failed |-> {}, closed |-> FALSE]
IdleCaller(calls) ==
    [pc |-> "idle", attempt |-> 0, guarded |-> FALSE, rconn |-> 0,
     got |-> None, log |-> <<>>, calls |-> calls]
ClientIdle ==
    /\ lock = 0
    /\ reader = 0
    /\ writer = 0
    /\ conns = [k \in Conns |-> NoConn]
    /\ request_id = 0
    /\ callers = [c \in Callers |-> IdleCaller(0)]

\* A connection on which nothing has been sent yet.
NoCall == [id |-> 0, method |-> None]
WireIdle ==
    /\ subscribed = FALSE
    /\ inbox = <<>>
    /\ in_call = NoCall
    /\ unanswered = <<>>
    /\ notified = 0
    /\ returns = <<>>

\* No function call is being followed.
Pending == "pending"
Absent == "absent"
NoFunctionCall ==
    args = <<>> /\ ret = Pending /\ cached = [t \in Tx |-> Absent]

\* The state in which the loop of a trace is entered.
TraceStart(dir, depth, vout, cfg, conn, unread) ==
    /\ pc = "loop"
    /\ direction = dir
    /\ max_depth = depth
    /\ electrs = cfg
    /\ connected = (cfg /\ conn)
    /\ queue = IF dir = "forward" THEN << <<Seed, vout, 0>> >>
               ELSE << <<Seed, 0>> >>
    /\ visited = {}
    /\ tx_count = 0
    /\ consecutive_electrs_failures = 0
    /\ electrs_disabled = FALSE
    /\ electrs_lookup_count = 0
    /\ lookup_log = <<>>
    /\ result = TraceResult(dir, depth, cfg)
    /\ tx_cache = {}
    /\ chain_nvout = [t \in Tx |-> 0]
    /\ chain_vin = [t \in Tx |-> <<>>]
    /\ chain_shape = [t \in Tx |-> unread]
    /\ expired = FALSE

Init ==
    /\ ClientIdle
    /\ WireIdle
    /\ NoFunctionCall
    /\ \E dir \in {"forward", "backward"}, given \in BOOLEAN, arg \in DepthArgs,
       vout \in 0..1, cfg \in BOOLEAN, conn \in BOOLEAN :
        TraceStart(dir, EffectiveDepth(given, arg), vout, cfg, conn,
                   UnreadOrdinary)

\* A trace over a chain that holds CoinJoin transactions, with Electrum
\* configured and connected.
InitMix ==
    /\ ClientIdle
    /\ WireIdle
    /\ NoFunctionCall
    /\ \E dir \in {"forward", "backward"}, arg \in 1..MixDepth :
        TraceStart(dir, EffectiveDepth(TRUE, arg), 0, TRUE, TRUE, Unread)

\* ------------------------------------------------- the engine's helpers
AddWarning(res, w) == [res EXCEPT !.warnings = Append(@, w)]

\* the loop without its transaction cap
MutLoopGuard == queue # <<>>
\* while queue and tx_count < MAX_TRANSACTIONS_PER_TRACE
LoopGuard == queue # <<>> /\ tx_count < MAX_TRANSACTIONS_PER_TRACE

\* the loop without its truncation of the queue
MutTruncated == FALSE
\* if len(queue) > MAX_QUEUE_SIZE: queue = queue[:MAX_QUEUE_SIZE]
Truncated == Len(queue) > MAX_QUEUE_SIZE
TruncatedQueue == IF Truncated THEN SubSeq(queue, 1, MAX_QUEUE_SIZE) ELSE queue
TruncatedResult ==
    IF Truncated
    THEN [AddWarning(result, Warn("Queue size exceeded", <<>>))
            EXCEPT !.hit_limit = TRUE]
    ELSE result

\* the loop without its visited check
MutSeenForward(txid, vout) == FALSE
\* if (current_txid, current_vout) in visited: continue
SeenForward(txid, vout) == <<txid, vout>> \in visited
\* if current_txid in visited: continue
SeenBackward(txid) == txid \in visited

\* the depth check off by one
MutOverDepth(depth) == depth > max_depth + 1
\* if depth > max_depth: warn and continue
OverDepth(depth) == depth > max_depth

\* _get_transaction: a decoded tx comes from the cache, or from the node when
\* it answers getrawtransaction with a decoded object (not hex, null or error).
RpcTxKinds == {"dict", "hex", "null", "error"}
MutGotTransaction(txid, kind) == txid \in tx_cache \/ kind \in {"dict", "hex"}
GotTransaction(txid, kind) == txid \in tx_cache \/ kind = "dict"
\* self._tx_cache[txid] = tx, only for a decoded object
CacheAfter(cache, txid, kind) ==
    IF txid \notin cache /\ kind = "dict" THEN cache \cup {txid} ELSE cache

\* _calculate_coinjoin_score_fast, in hundredths; values in satoshi
\* (round(value, 8) of a BTC amount).
Abs(x) == IF x < 0 THEN -x ELSE x
\* value_counts = Counter(values)
ValueCounts(values) ==
    [v \in {values[i] : i \in 1..Len(values)} |->
        Cardinality({i \in 1..Len(values) : values[i] = v})]
WhirlpoolDenoms == {100000, 1000000, 5000000, 50000000}
CoinjoinScoreFast(tx) ==
    LET num_outputs == Len(tx.vout)
        num_inputs == tx.nin
        value_counts == ValueCounts(tx.vout)
        max_equal == CHOOSE m \in {value_counts[v] : v \in DOMAIN value_counts} :
                        \A v \in DOMAIN value_counts : value_counts[v] <= m
        equal_value == CHOOSE v \in DOMAIN value_counts :
                          value_counts[v] = max_equal
    IN  IF num_outputs < 2 THEN 0
        ELSE IF num_outputs = 5 /\ max_equal = 5
             THEN IF \E d \in WhirlpoolDenoms : Abs(equal_value - d) < 10000
                  THEN 95 ELSE 85
        ELSE IF max_equal >= 10 THEN 85
        ELSE IF max_equal >= 5 /\ num_inputs >= 3 THEN 70
        ELSE IF max_equal >= 3 /\ num_inputs >= 2 THEN 40
        ELSE IF Cardinality(DOMAIN value_counts) * 10 < 3 * num_outputs
                /\ num_outputs >= 5
             THEN 50
        ELSE 0

\* the listing with the threshold included
MutListCoinjoin(res, txid, cj_score) ==
    IF cj_score >= 70
       /\ \A i \in 1..Len(res.coinjoin_txids) : res.coinjoin_txids[i] # txid
    THEN [res EXCEPT !.coinjoin_txids = Append(@, txid)]
    ELSE res
\* if cj_score > 0.7 and current_txid not in result.coinjoin_txids: append
ListCoinjoin(res, txid, cj_score) ==
    IF cj_score > 70
       /\ \A i \in 1..Len(res.coinjoin_txids) : res.coinjoin_txids[i] # txid
    THEN [res EXCEPT !.coinjoin_txids = Append(@, txid)]
    ELSE res

\* The shapes the chain can give txid, read when the score is first computed:
\* the trace follows at most MaxVout outputs of a transaction, so a
\* transaction that shows MaxVout outputs has that many or more. A backward
\* trace reads no output count: its transactions have MaxVout or more.
ShapeChoices(txid, nvout) ==
    IF Len(chain_shape[txid].vout) > 0 THEN {chain_shape[txid]}
    ELSE {sh \in OrdinaryShapes \cup
                 (IF chain_shape[txid] = Unread THEN MixShapes ELSE {}) :
            \/ Len(sh.vout) = nvout
            \/ nvout = MaxVout /\ Len(sh.vout) >= MaxVout}
\* A transaction that pays out a block reward is an ordinary payment.
CoinbaseShapes(txid) ==
    {sh \in ShapeChoices(txid, MaxVout) : sh \in OrdinaryShapes}
\* cj_score of the transaction in hand, once its shape is read in this step
ScoreRead(txid) == CoinjoinScoreFast(chain_shape'[txid])
\* The result with the transaction listed when it scores as a CoinJoin, and
\* the node with its score.
ScoredResult(txid) == ListCoinjoin(TruncatedResult, txid, ScoreRead(txid))
ScoredNode(txid, vout, status, depth, spent_by) ==
    [UTXONode(txid, vout, status, depth, spent_by)
        EXCEPT !.coinjoin_score = ScoreRead(txid),
               !.value_sats = IntSats(chain_shape'[txid].vout[vout + 1])]

\* the lookup condition without electrs_disabled
MutCanLookup(address, depth) == electrs /\ address /\ depth < max_depth
\* if electrs and address and depth < max_depth and not electrs_disabled
CanLookup(address, depth) ==
    electrs /\ address /\ depth < max_depth /\ ~electrs_disabled

\* the counter without its reset on success
MutFailuresAfter(found) ==
    IF found THEN consecutive_electrs_failures
    ELSE consecutive_electrs_failures + 1
\* consecutive_electrs_failures after a lookup
FailuresAfter(found) ==
    IF found THEN 0 ELSE consecutive_electrs_failures + 1

\* if consecutive_electrs_failures >= MAX_CONSECUTIVE_ELECTRS_FAILURES
DisableAfter(failures) == failures >= MAX_CONSECUTIVE_ELECTRS_FAILURES

\* the outputs of the spender queued two levels below the output spent
MutSpendingOutputs(spender, nvout, depth, seen) ==
    SelectSeq([i \in 1..nvout |-> <<spender, i - 1, depth + 2>>],
              LAMBDA e : <<e[1], e[2]>> \notin seen)
\* for out_idx, out in enumerate(spending_tx["vout"]):
\*     if (spending_txid, out_idx) not in visited: queue.append(...)
SpendingOutputs(spender, nvout, depth, seen) ==
    SelectSeq([i \in 1..nvout |-> <<spender, i - 1, depth + 1>>],
              LAMBDA e : <<e[1], e[2]>> \notin seen)

\* _find_spending_tx_electrs: the spending txid it returns, for each outcome
\* of electrs.find_spending_tx under the 30 s deadline.
LookupOutcomes == {"found", "none", "timeout", "error"}
LookupResult(outcome, spender) == IF outcome = "found" THEN spender ELSE None
\* the timeout handler without its electrs.disconnect()
MutConnectedAfter(outcome, conn) ==
    CASE outcome = "error" -> FALSE
      [] outcome = "found" -> TRUE
      [] outcome = "timeout" -> connected
      [] OTHER -> conn
\* ElectrsClient._connected after the lookup: a timeout or an exception makes
\* the engine call electrs.disconnect(); a found spender ends on a successful
\* call; a none result may follow calls that failed inside find_spending_tx.
ConnectedAfter(outcome, conn) ==
    CASE outcome \in {"timeout", "error"} -> FALSE
      [] outcome = "found" -> TRUE
      [] OTHER -> conn

\* --------------------------------------------------------- trace_forward
\* The number of outputs the chain gives txid: read on its first fetch.
NvoutChoices(txid) ==
    IF chain_nvout[txid] = 0 THEN 1..MaxVout ELSE {chain_nvout[txid]}

ForwardSkip(q) ==
    /\ queue' = q
    /\ result' = TruncatedResult
    /\ UNCHANGED <<pc, visited, tx_count, consecutive_electrs_failures,
                   electrs_disabled, electrs_lookup_count, lookup_log,
                   tx_cache, chain_nvout, chain_vin, chain_shape, connected>>

ForwardDepthLimit(cur, q) ==
    /\ queue' = q
    /\ visited' = visited \cup {<<cur[1], cur[2]>>}
    /\ result' = AddWarning(TruncatedResult,
                            Warn("Depth limit reached", <<cur[1], cur[2]>>))
    /\ UNCHANGED <<pc, tx_count, consecutive_electrs_failures,
                   electrs_disabled, electrs_lookup_count, lookup_log,
                   tx_cache, chain_nvout, chain_vin, chain_shape, connected>>

\* the failed fetch without the entry marked as visited
MutForwardNotFound(cur, q) ==
    /\ queue' = q
    /\ visited' = visited
    /\ result' = AddWarning(TruncatedResult,
                            Warn("Transaction not found", <<cur[1]>>))
    /\ UNCHANGED <<pc, tx_count, consecutive_electrs_failures,
                   electrs_disabled, electrs_lookup_count, lookup_log,
                   tx_cache, chain_nvout, chain_vin, chain_shape, connected>>

\* if not tx or not isinstance(tx, dict): warn and continue
ForwardNotFound(cur, q) ==
    /\ queue' = q
    /\ visited' = visited \cup {<<cur[1], cur[2]>>}
    /\ result' = AddWarning(TruncatedResult,
                            Warn("Transaction not found", <<cur[1]>>))
    /\ UNCHANGED <<pc, tx_count, consecutive_electrs_failures,
                   electrs_disabled, electrs_lookup_count, lookup_log,
                   tx_cache, chain_nvout, chain_vin, chain_shape, connected>>

\* if current_vout >= len(tx["vout"]): warn and continue
ForwardInvalidVout(cur, q) ==
    /\ queue' = q
    /\ result' = AddWarning(TruncatedResult,
                            Warn("Invalid vout", <<cur[1], cur[2]>>))
    /\ UNCHANGED <<pc, consecutive_electrs_failures, electrs_disabled,
                   electrs_lookup_count, lookup_log, connected>>

\* rpc.get_tx_out raises: nothing catches it, the exception leaves the trace
ForwardTxOutError(q) ==
    /\ pc' = "raised"
    /\ queue' = q
    /\ result' = TruncatedResult
    /\ UNCHANGED <<consecutive_electrs_failures, electrs_disabled,
                   electrs_lookup_count, lookup_log, connected>>

\* the unspent node left out of unspent_endpoints
MutForwardUnspent(cur, q) ==
    LET node == ScoredNode(cur[1], cur[2], "unspent", cur[3], None) IN
    /\ queue' = q
    /\ result' = [ScoredResult(cur[1]) EXCEPT
                    !.nodes = Append(@, node),
                    !.total_value_traced_sats = @ + node.value_sats]
    /\ UNCHANGED <<pc, consecutive_electrs_failures, electrs_disabled,
                   electrs_lookup_count, lookup_log, connected>>

\* utxo_check is not None: an unspent node, not extended
ForwardUnspent(cur, q) ==
    LET node == ScoredNode(cur[1], cur[2], "unspent", cur[3], None) IN
    /\ queue' = q
    /\ result' = [ScoredResult(cur[1]) EXCEPT
                    !.nodes = Append(@, node),
                    !.unspent_endpoints = Append(@, node),
                    !.total_value_traced_sats = @ + node.value_sats]
    /\ UNCHANGED <<pc, consecutive_electrs_failures, electrs_disabled,
                   electrs_lookup_count, lookup_log, connected>>

\* spent, and no lookup is made
ForwardSpentNoLookup(cur, q) ==
    LET node == ScoredNode(cur[1], cur[2], "spent", cur[3], None) IN
    /\ queue' = q
    /\ result' = [ScoredResult(cur[1]) EXCEPT
                    !.nodes = Append(@, node),
                    !.total_value_traced_sats = @ + node.value_sats]
    /\ UNCHANGED <<pc, consecutive_electrs_failures, electrs_disabled,
                   electrs_lookup_count, lookup_log, connected>>

\* spent, and _find_spending_tx_electrs is called; cache1 and chain1 are the
\* cache and the chain as read so far in this iteration
ForwardLookup(cur, q, seen, cache1, chain1, outcome, spender, conn, skind, snv) ==
    LET txid == cur[1]
        vout == cur[2]
        depth == cur[3]
        spending_txid == LookupResult(outcome, spender)
        found == spending_txid # None
        failures == FailuresAfter(found)
        disable == ~found /\ DisableAfter(failures)
        got == found /\ (spending_txid \in cache1 \/ skind = "dict")
        node == ScoredNode(txid, vout, "spent", depth, spending_txid)
        res1 == IF got
                THEN [ScoredResult(txid) EXCEPT
                        !.edges = Append(@,
                            [TraceEdge(txid, vout, spending_txid)
                                EXCEPT !.value_sats = node.value_sats])]
                ELSE ScoredResult(txid)
        res2 == IF disable
                THEN AddWarning(res1, Warn("Electrs disabled", <<>>))
                ELSE res1
    IN
    /\ electrs_lookup_count' = electrs_lookup_count + 1
    /\ lookup_log' = Append(lookup_log, outcome)
    /\ connected' = ConnectedAfter(outcome, conn)
    /\ consecutive_electrs_failures' = failures
    /\ electrs_disabled' = (electrs_disabled \/ disable)
    /\ queue' = IF got THEN q \o SpendingOutputs(spending_txid, snv, depth, seen)
                ELSE q
    /\ result' = [res2 EXCEPT
                    !.nodes = Append(@, node),
                    !.total_value_traced_sats = @ + node.value_sats]
    /\ tx_cache' = IF got THEN cache1 \cup {spending_txid} ELSE cache1
    /\ chain_nvout' = IF got THEN [chain1 EXCEPT ![spending_txid] = snv]
                      ELSE chain1
    /\ pc' = pc

\* The responses to a lookup: its outcome and, when a spender is found (never
\* the source transaction itself, electrs.py:632), the fetch of the spender.
ForwardLookupAny(cur, q, seen, cache1, chain1) ==
    \/ \E spender \in Spenders(cur[1]), skind \in {"dict", "null"} :
         \E snv \in (IF chain1[spender] # 0 THEN {chain1[spender]}
                     ELSE IF skind = "dict" THEN 1..MaxVout ELSE {1}) :
            ForwardLookup(cur, q, seen, cache1, chain1, "found", spender,
                          TRUE, skind, snv)
    \/ \E conn \in BOOLEAN :
            ForwardLookup(cur, q, seen, cache1, chain1, "none", cur[1],
                          conn, "null", 1)
    \/ \E outcome \in {"timeout", "error"} :
            ForwardLookup(cur, q, seen, cache1, chain1, outcome, cur[1],
                          FALSE, "null", 1)

\* The rest of the iteration once the transaction is in hand.
ForwardVisit(cur, q, kind, nvout) ==
    LET txid == cur[1]
        vout == cur[2]
        depth == cur[3]
        seen == visited \cup {<<txid, vout>>}
        cache1 == CacheAfter(tx_cache, txid, kind)
        chain1 == [chain_nvout EXCEPT ![txid] = nvout]
    IN
    /\ visited' = seen
    /\ tx_count' = tx_count + 1
    /\ chain_vin' = chain_vin
    /\ IF vout >= nvout
       THEN /\ ForwardInvalidVout(cur, q)
            /\ tx_cache' = cache1 /\ chain_nvout' = chain1
            /\ chain_shape' = chain_shape
       ELSE \/ /\ ForwardTxOutError(q)
               /\ tx_cache' = cache1 /\ chain_nvout' = chain1
               /\ chain_shape' = chain_shape
            \/ \E shape \in ShapeChoices(txid, nvout) :
                 /\ chain_shape' = [chain_shape EXCEPT ![txid] = shape]
                 /\ \/ ForwardUnspent(cur, q)
                       /\ tx_cache' = cache1 /\ chain_nvout' = chain1
                    \/ \E address \in BOOLEAN :
                         IF ~CanLookup(address, depth)
                         THEN ForwardSpentNoLookup(cur, q)
                              /\ tx_cache' = cache1 /\ chain_nvout' = chain1
                         ELSE ForwardLookupAny(cur, q, seen, cache1, chain1)

\* One iteration of the while loop of trace_forward.
ForwardIter ==
    /\ pc = "loop" /\ direction = "forward"
    /\ UNCHANGED otherVars
    /\ LoopGuard
    /\ ~expired
    /\ UNCHANGED <<direction, max_depth, electrs, expired>>
    /\ LET cur == Head(TruncatedQueue)
           q == Tail(TruncatedQueue)
       IN  IF SeenForward(cur[1], cur[2]) THEN ForwardSkip(q)
           ELSE IF OverDepth(cur[3]) THEN ForwardDepthLimit(cur, q)
           ELSE \E kind \in RpcTxKinds :
                  IF ~GotTransaction(cur[1], kind) THEN ForwardNotFound(cur, q)
                  ELSE \E nvout \in NvoutChoices(cur[1]) :
                         ForwardVisit(cur, q, kind, nvout)

\* -------------------------------------------------------- trace_backward
\* The inputs the chain gives txid: read on its first visit.
VinChoices(txid) ==
    IF chain_vin[txid] = <<>> THEN Vins(txid) ELSE {chain_vin[txid]}

\* is_coinbase = any("coinbase" in vin for vin in tx["vin"])
IsCoinbase(vin) == \E i \in 1..Len(vin) : vin[i] = "coinbase"

\* the parents added at max depth as well
MutCanExtend(depth) == depth <= max_depth
\* Only add parent transactions if below max depth
CanExtend(depth) == depth < max_depth

\* for vin in tx["vin"]: if "txid" in vin: one edge per input
ParentEdges(txid, vin) ==
    LET prevs == SelectSeq(vin, LAMBDA p : p # "coinbase")
    IN [i \in 1..Len(prevs) |-> TraceEdge(prevs[i], 0, txid)]

\* if prev_txid not in visited: queue.append((prev_txid, depth + 1))
ParentEntries(vin, depth, seen) ==
    LET prevs == SelectSeq(vin, LAMBDA p : p # "coinbase" /\ p \notin seen)
    IN [i \in 1..Len(prevs) |-> <<prevs[i], depth + 1>>]

BackwardSkip(q) ==
    /\ queue' = q
    /\ result' = TruncatedResult
    /\ UNCHANGED <<pc, visited, tx_count, tx_cache, chain_vin, chain_shape>>

BackwardDepthLimit(cur, q) ==
    /\ queue' = q
    /\ visited' = visited \cup {cur[1]}
    /\ result' = AddWarning(TruncatedResult,
                            Warn("Depth limit reached", <<cur[1]>>))
    /\ UNCHANGED <<pc, tx_count, tx_cache, chain_vin, chain_shape>>

BackwardNotFound(cur, q) ==
    /\ queue' = q
    /\ visited' = visited \cup {cur[1]}
    /\ result' = AddWarning(TruncatedResult,
                            Warn("Transaction not found", <<cur[1]>>))
    /\ UNCHANGED <<pc, tx_count, tx_cache, chain_vin, chain_shape>>

BackwardVisit(cur, q, kind, vin) ==
    LET txid == cur[1]
        depth == cur[2]
        seen == visited \cup {txid}
    IN
    /\ visited' = seen
    /\ tx_count' = tx_count + 1
    /\ tx_cache' = CacheAfter(tx_cache, txid, kind)
    /\ chain_vin' = [chain_vin EXCEPT ![txid] = vin]
    /\ pc' = pc
    /\ IF IsCoinbase(vin)
       THEN \E shape \in CoinbaseShapes(txid) :
            LET node == [UTXONode(txid, 0, "coinbase", depth, None)
                            EXCEPT !.value_sats = TotalOutput(shape.vout)]
            IN
            /\ queue' = q
            /\ chain_shape' = [chain_shape EXCEPT ![txid] = shape]
            /\ result' = [TruncatedResult EXCEPT
                            !.nodes = Append(@, node),
                            !.coinbase_origins = Append(@, node)]
       ELSE \E shape \in ShapeChoices(txid, MaxVout) :
            LET node == [ScoredNode(txid, 0, "spent", depth, None)
                            EXCEPT !.value_sats = TotalOutput(shape.vout)]
                ext == CanExtend(depth)
            IN
            /\ chain_shape' = [chain_shape EXCEPT ![txid] = shape]
            /\ queue' = IF ext THEN q \o ParentEntries(vin, depth, seen) ELSE q
            /\ result' = [ScoredResult(txid) EXCEPT
                            !.edges = IF ext THEN @ \o ParentEdges(txid, vin)
                                      ELSE @,
                            !.nodes = Append(@, node),
                            !.total_value_traced_sats = @ + node.value_sats]

\* One iteration of the while loop of trace_backward.
BackwardIter ==
    /\ pc = "loop" /\ direction = "backward"
    /\ UNCHANGED otherVars
    /\ LoopGuard
    /\ UNCHANGED <<direction, max_depth, electrs, consecutive_electrs_failures,
                   electrs_disabled, electrs_lookup_count, lookup_log,
                   chain_nvout, connected, expired>>
    /\ LET cur == Head(TruncatedQueue)
           q == Tail(TruncatedQueue)
       IN  IF SeenBackward(cur[1]) THEN BackwardSkip(q)
           ELSE IF OverDepth(cur[2]) THEN BackwardDepthLimit(cur, q)
           ELSE \E kind \in RpcTxKinds :
                  IF ~GotTransaction(cur[1], kind) THEN BackwardNotFound(cur, q)
                  ELSE \E vin \in VinChoices(cur[1]) :
                         BackwardVisit(cur, q, kind, vin)

\* trace_forward only: elapsed > MAX_TRACE_TIME_SECONDS at the top of an
\* iteration: break
Deadline ==
    /\ pc = "loop" /\ direction = "forward"
    /\ UNCHANGED otherVars
    /\ LoopGuard
    /\ expired
    /\ result' = [AddWarning(result, Warn("Trace timeout", <<>>))
                    EXCEPT !.hit_limit = TRUE]
    /\ pc' = "finish"
    /\ UNCHANGED <<direction, max_depth, electrs, queue, visited, tx_count,
                   consecutive_electrs_failures, electrs_disabled,
                   electrs_lookup_count, lookup_log, tx_cache, chain_nvout,
                   chain_vin, chain_shape, connected, expired>>

\* The loop condition fails: leave the loop.
LoopExit ==
    /\ pc = "loop"
    /\ UNCHANGED otherVars
    /\ ~LoopGuard
    /\ pc' = "finish"
    /\ UNCHANGED <<direction, max_depth, electrs, queue, visited, tx_count,
                   consecutive_electrs_failures, electrs_disabled,
                   electrs_lookup_count, lookup_log, result, tx_cache,
                   chain_nvout, chain_vin, chain_shape, connected, expired>>

\* if tx_count >= MAX_TRANSACTIONS_PER_TRACE
HitTransactionLimit == tx_count >= MAX_TRANSACTIONS_PER_TRACE

\* After the loop: the transaction-limit warning, total_transactions, return.
Finish ==
    /\ pc = "finish"
    /\ UNCHANGED otherVars
    /\ result' = [(IF HitTransactionLimit
                   THEN [AddWarning(result, Warn("Transaction limit", <<>>))
                           EXCEPT !.hit_limit = TRUE]
                   ELSE result)
                  EXCEPT !.total_transactions = tx_count]
    /\ pc' = "done"
    /\ UNCHANGED <<direction, max_depth, electrs, queue, visited, tx_count,
                   consecutive_electrs_failures, electrs_disabled,
                   electrs_lookup_count, lookup_log, tx_cache, chain_nvout,
                   chain_vin, chain_shape, connected, expired>>

\* The wall clock passes start_time + MAX_TRACE_TIME_SECONDS while the trace
\* is in its loop (during any of the awaits of an iteration).
Expire ==
    /\ pc = "loop"
    /\ ~expired
    /\ expired' = TRUE
    /\ UNCHANGED otherVars
    /\ UNCHANGED <<pc, direction, max_depth, electrs, queue, visited, tx_count,
                   consecutive_electrs_failures, electrs_disabled,
                   electrs_lookup_count, lookup_log, result, tx_cache,
                   chain_nvout, chain_vin, chain_shape, connected>>

Next ==
    ForwardIter \/ BackwardIter \/ Deadline \/ Expire \/ LoopExit \/ Finish

Spec == Init /\ [][Next]_vars

\* ====================================================== claims on a trace
Nodes == result.nodes
Edges == result.edges
Warnings == result.warnings
WarningCount(kind) ==
    Cardinality({i \in 1..Len(Warnings) : Warnings[i].kind = kind})
Last(seq) == seq[Len(seq)]
Failed(outcome) == outcome # "found"

\* C1: no two nodes of a forward trace share (txid, vout), and no two nodes of
\* a backward trace share a txid, at any point of the trace and in its result.
C1_NodesUnique ==
    \A i, j \in 1..Len(Nodes) :
        i # j =>
            IF direction = "forward"
            THEN <<Nodes[i].txid, Nodes[i].vout>> # <<Nodes[j].txid, Nodes[j].vout>>
            ELSE Nodes[i].txid # Nodes[j].txid

\* A forward trace dequeues an output that is already a node (a revisit).
C1_Witness ==
    /\ direction = "forward" /\ pc = "loop" /\ LoopGuard
    /\ \E i \in 1..Len(Nodes) :
         Nodes[i].txid = Head(queue)[1] /\ Nodes[i].vout = Head(queue)[2]

\* C2: total_transactions (and the running tx_count) never exceeds
\* MAX_TRANSACTIONS_PER_TRACE, and a trace that returns with the cap reached
\* has hit_limit set and carries the 'Transaction limit' warning.
C2_TransactionCap ==
    /\ tx_count <= MAX_TRANSACTIONS_PER_TRACE
    /\ result.total_transactions <= MAX_TRANSACTIONS_PER_TRACE
    /\ (pc = "done" => result.total_transactions = tx_count)
    /\ (pc = "done" /\ tx_count >= MAX_TRANSACTIONS_PER_TRACE) =>
          /\ result.hit_limit
          /\ WarningCount("Transaction limit") = 1

\* A backward trace returns with the cap reached while entries are queued.
C2_Witness ==
    /\ pc = "done" /\ direction = "backward" /\ queue # <<>>
    /\ result.total_transactions = MAX_TRANSACTIONS_PER_TRACE
    /\ result.hit_limit

\* C3: every node has depth <= max_depth; an entry dequeued above max_depth
\* yields no node and is not extended (nothing deeper is ever queued).
C3_DepthBound ==
    /\ \A i \in 1..Len(Nodes) : Nodes[i].depth <= max_depth
    /\ \A i \in 1..Len(queue) :
         LET d == queue[i][Len(queue[i])] IN d = 0 \/ d <= max_depth

\* An entry above max_depth was dequeued: the depth warning, and no node.
C3_Witness ==
    /\ pc = "done"
    /\ WarningCount("Depth limit reached") = 1
    /\ Nodes = <<>> /\ Edges = <<>>

\* C4: once MAX_CONSECUTIVE_ELECTRS_FAILURES lookups in a row have failed,
\* Electrum is disabled for the rest of the forward trace: no further lookup,
\* no further edge, exactly one 'Electrs disabled' warning, and the loop goes
\* on consuming the queue, emitting spent or unspent nodes without a spender.
C4_DisabledState ==
    /\ electrs_disabled <=>
          consecutive_electrs_failures >= MAX_CONSECUTIVE_ELECTRS_FAILURES
    /\ WarningCount("Electrs disabled") = (IF electrs_disabled THEN 1 ELSE 0)
C4_DisabledStep ==
    electrs_disabled =>
        /\ electrs_disabled'
        /\ electrs_lookup_count' = electrs_lookup_count
        /\ lookup_log' = lookup_log
        /\ Edges' = Edges
        /\ (pc = "loop" /\ LoopGuard /\ expired' = expired) =>
              /\ pc' \in {"loop", "finish", "raised"}
              /\ pc' = "loop" => Len(queue') = Len(TruncatedQueue) - 1
        /\ \/ Nodes' = Nodes
           \/ /\ Len(Nodes') = Len(Nodes) + 1
              /\ SubSeq(Nodes', 1, Len(Nodes)) = Nodes
              /\ Last(Nodes').status \in {"spent", "unspent"}
              /\ Last(Nodes').spent_by_txid = None
C4_DisableElectrs == []C4_DisabledState /\ [][C4_DisabledStep]_vars

\* Electrum was disabled and a later queue entry was still turned into a node.
C4_Witness ==
    /\ electrs_disabled
    /\ Len(Nodes) > 0 /\ Last(Nodes).status = "unspent"

\* C5: a successful lookup resets the failure counter to 0: the counter is the
\* length of the run of failed lookups that ends the lookup log, so Electrum
\* is disabled only by MAX_CONSECUTIVE_ELECTRS_FAILURES failures in a row.
TrailingFailures(log) ==
    IF \A i \in 1..Len(log) : Failed(log[i]) THEN Len(log)
    ELSE Len(log) - (CHOOSE k \in 1..Len(log) :
                        /\ ~Failed(log[k])
                        /\ \A i \in (k+1)..Len(log) : Failed(log[i]))
C5_ResetOnSuccess ==
    /\ consecutive_electrs_failures = TrailingFailures(lookup_log)
    /\ electrs_disabled =>
          /\ Len(lookup_log) >= MAX_CONSECUTIVE_ELECTRS_FAILURES
          /\ \A i \in 1..Len(lookup_log) :
                i > Len(lookup_log) - MAX_CONSECUTIVE_ELECTRS_FAILURES
                    => Failed(lookup_log[i])

\* As many failures as the limit, with a success between them: not disabled.
C5_Witness ==
    /\ ~electrs_disabled
    /\ Cardinality({i \in 1..Len(lookup_log) : Failed(lookup_log[i])})
          >= MAX_CONSECUTIVE_ELECTRS_FAILURES
    /\ consecutive_electrs_failures = 1

\* C6: a lookup that exceeds its 30 s deadline leaves the Electrum client
\* disconnected, yields no spending txid, and adds one to the failure counter.
C6_TimeoutStep ==
    (Len(lookup_log') = Len(lookup_log) + 1 /\ Last(lookup_log') = "timeout") =>
        /\ ~connected'
        /\ consecutive_electrs_failures' = consecutive_electrs_failures + 1
        /\ Last(Nodes').spent_by_txid = None
        /\ Edges' = Edges
C6_LookupTimeout == [][C6_TimeoutStep]_vars

\* A lookup timed out on a connection that the lookup before had left up.
C6_Witness ==
    /\ Len(lookup_log) >= 2
    /\ lookup_log[Len(lookup_log) - 1] = "found"
    /\ Last(lookup_log) = "timeout"
    /\ ~connected

\* =========================================================================
\* The shared ElectrsClient (electrs.py) under concurrent callers. Each step
\* is the code between two suspension points of one coroutine.
\* =========================================================================
traceRest == <<pc, direction, max_depth, electrs, queue, visited, tx_count,
               consecutive_electrs_failures, electrs_disabled,
               electrs_lookup_count, lookup_log, result, tx_cache,
               chain_nvout, chain_vin, chain_shape, expired>>

\* No trace of this engine instance is running.
TraceIdle ==
    /\ pc = "idle"
    /\ direction = "forward"
    /\ max_depth = 0
    /\ electrs = TRUE
    /\ queue = <<>>
    /\ visited = {}
    /\ tx_count = 0
    /\ consecutive_electrs_failures = 0
    /\ electrs_disabled = FALSE
    /\ electrs_lookup_count = 0
    /\ lookup_log = <<>>
    /\ result = TraceResult("forward", 0, TRUE)
    /\ tx_cache = {}
    /\ chain_nvout = [t \in Tx |-> 0]
    /\ chain_vin = [t \in Tx |-> <<>>]
    /\ chain_shape = [t \in Tx |-> UnreadOrdinary]
    /\ expired = FALSE

InitClient ==
    ClientIdle /\ WireIdle /\ NoFunctionCall /\ TraceIdle /\ connected = FALSE

\* An entry of a caller's log of one _call: what happened, at which attempt.
Ev(kind, n) == <<kind, n>>

\* async with self._lock: the lock can be taken
LockFree == lock = 0

\* connect(): not force_reconnect and self._connected and self._writer
\*            and not self._writer.is_closing()
Usable == connected /\ writer # 0 /\ ~conns[writer].closed

\* _call: if attempt < self.MAX_RETRIES - 1: sleep and try again
\* one retry too many
MutCanRetry(attempt) == attempt < MAX_RETRIES
CanRetry(attempt) == attempt < MAX_RETRIES - 1

\* What the await of the response line can end in (_call_once, lines 222-252).
ReadOutcomes == {"ok", "rpc_error", "empty", "timeout", "badjson", "io_error"}
\* The outcomes in which a response line was read from the connection.
LineRead == {"ok", "rpc_error", "badjson"}
\* The failures on which _call_once itself disconnects before raising.
DisconnectsInside(outcome) == outcome \in {"timeout", "badjson", "io_error"}

\* Logical calls started so far by the callers cs.
RECURSIVE CallsMade(_)
CallsMade(cs) ==
    IF cs = {} THEN 0
    ELSE LET c == CHOOSE x \in cs : TRUE
         IN callers[c].calls + CallsMade(cs \ {c})

\* A connection something still refers to: the client's writer w, or the
\* reader a caller cs[c] awaits a line from.
Live(k, w, cs) ==
    w = k \/ \E c \in Callers : cs[c].pc = "read" /\ cs[c].rconn = k
\* A connection nothing refers to any more is gone.
Collect(raw, w, cs) ==
    [k \in Conns |-> IF Live(k, w, cs) THEN raw[k] ELSE NoConn]

\* Caller c goes on as rec, the client's streams become w (0 for None), and
\* the connections become raw.
Update(c, rec, w, raw) ==
    /\ callers' = [callers EXCEPT ![c] = rec]
    /\ reader' = w
    /\ writer' = w
    /\ conns' = Collect(raw, w, [callers EXCEPT ![c] = rec])
    /\ UNCHANGED <<traceRest, wireVars, callVars>>

\* writer.close() of the client's writer, if it has one
Closed(raw) ==
    IF writer # 0 THEN [raw EXCEPT ![writer].closed = TRUE] ELSE raw

\* the counter starting again at 1 on a connection that was just opened
MutSend(c, k, raw) ==
    /\ request_id' = IF k = writer THEN request_id + 1 ELSE 1
    /\ Update(c, [callers[c] EXCEPT !.pc = "read", !.rconn = k, !.got = None],
              k, [raw EXCEPT ![k].pending = @ + 1])

\* self._request_id += 1; self._writer.write(request); await readline()
\* on the client's connection k
Send(c, k, raw) ==
    /\ request_id' = request_id + 1
    /\ Update(c, [callers[c] EXCEPT !.pc = "read", !.rconn = k, !.got = None],
              k, [raw EXCEPT ![k].pending = @ + 1])

\* What follows the disconnect of the retry path of _call: sleep, or raise.
AfterHandler(rec) ==
    IF CanRetry(rec.attempt)
    THEN [rec EXCEPT !.pc = "sleep"]
    ELSE [rec EXCEPT !.pc = "raised",
                     !.log = Append(@, Ev("raise", rec.attempt + 1))]

\* _call_once raised ElectrsError: the lock is released and _call's handler
\* runs disconnect() up to its first suspension point (writer.wait_closed()).
RaiseToHandler(c, rec0, raw) ==
    LET rec == [rec0 EXCEPT !.log = @ \o <<Ev("failed", rec0.attempt + 1),
                                           Ev("disconnect", rec0.attempt + 1)>>]
    IN
    /\ lock' = 0
    /\ connected' = FALSE
    /\ IF writer # 0
       THEN Update(c, [rec EXCEPT !.pc = "h_disc"], writer, Closed(raw))
       ELSE Update(c, AfterHandler(rec), 0, raw)

\* A caller enters _call(method, params); guarded: under the engine's 30 s
\* asyncio.wait_for of _find_spending_tx_electrs.
StartCall(c) ==
    /\ callers[c].pc = "idle"
    /\ CallsMade(Callers) < MaxCalls
    /\ \E g \in BOOLEAN :
         Update(c, [IdleCaller(callers[c].calls + 1) EXCEPT
                        !.pc = "lock", !.guarded = g,
                        !.log = <<Ev("attempt", 1)>>],
                writer, conns)
    /\ UNCHANGED <<lock, request_id, connected>>

\* async with self._lock, then connect() up to its first suspension point:
\* reuse the connection and send; or close the old writer first; or go
\* straight to open_connection.
EnterCallOnce(c) ==
    /\ callers[c].pc = "lock"
    /\ LockFree
    /\ lock' = c
    /\ IF Usable
       THEN /\ Send(c, writer, conns)
            /\ UNCHANGED connected
       ELSE IF writer # 0
       THEN /\ connected' = FALSE
            /\ Update(c, [callers[c] EXCEPT !.pc = "conn_disc"], writer,
                      Closed(conns))
            /\ UNCHANGED request_id
       ELSE /\ Update(c, [callers[c] EXCEPT !.pc = "opening"], writer, conns)
            /\ UNCHANGED <<request_id, connected>>

\* disconnect() inside connect(), after wait_closed(): clear reader and writer
ConnectDisconnected(c) ==
    /\ callers[c].pc = "conn_disc"
    /\ Update(c, [callers[c] EXCEPT !.pc = "opening"], 0, conns)
    /\ UNCHANGED <<lock, request_id, connected>>

\* open_connection under its 10 s deadline succeeds: a new connection, on
\* which the request is sent
OpenConnection(c) ==
    /\ callers[c].pc = "opening"
    /\ LET k == CHOOSE k \in Conns : ~Live(k, writer, callers) IN
       Send(c, k, conns)
    /\ connected' = TRUE
    /\ UNCHANGED lock

\* open_connection fails or times out: connect() returns False and
\* _call_once raises "Not connected" before any request is sent
OpenFails(c) ==
    /\ callers[c].pc = "opening"
    /\ RaiseToHandler(c, callers[c], conns)
    /\ UNCHANGED request_id

\* The log of an attempt that failed inside _call_once after its disconnect.
FailedInside(rec) ==
    [rec EXCEPT !.log = @ \o <<Ev("failed", rec.attempt + 1),
                               Ev("disconnect", rec.attempt + 1)>>]

\* The await of the response line ends.
ReadResponse(c) ==
    /\ callers[c].pc = "read"
    /\ \E outcome \in ReadOutcomes :
        LET k == callers[c].rconn
            rec == [callers[c] EXCEPT !.got = outcome, !.rconn = 0]
            raw == [conns EXCEPT
                      ![k].pending = IF outcome \in LineRead THEN @ - 1 ELSE @,
                      ![k].failed = IF outcome = "ok" THEN @ ELSE @ \cup {outcome}]
        IN
        IF outcome = "ok"
        THEN /\ lock' = 0
             /\ Update(c, [rec EXCEPT !.pc = "returned",
                                      !.log = Append(@, Ev("return", rec.attempt + 1))],
                       writer, raw)
             /\ UNCHANGED <<request_id, connected>>
        ELSE IF DisconnectsInside(outcome)
        THEN \* except TimeoutError / JSONDecodeError / Exception:
             \*     await self.disconnect(); raise ElectrsError
             /\ connected' = FALSE
             /\ IF writer # 0
                THEN /\ Update(c, [rec EXCEPT !.pc = "t_disc"], writer, Closed(raw))
                     /\ UNCHANGED lock
                ELSE /\ Update(c, AfterHandler(FailedInside(rec)), 0, raw)
                     /\ lock' = 0
             /\ UNCHANGED request_id
        ELSE \* an error response or an empty line: ElectrsError, re-raised
             /\ RaiseToHandler(c, rec, raw)
             /\ UNCHANGED request_id

\* disconnect() inside _call_once, after wait_closed(): clear, raise, release
\* the lock; _call's handler then runs disconnect() on the cleared client.
TimeoutDisconnected(c) ==
    /\ callers[c].pc = "t_disc"
    /\ connected' = FALSE
    /\ lock' = 0
    /\ Update(c, AfterHandler(FailedInside(callers[c])), 0, conns)
    /\ UNCHANGED request_id

\* disconnect() of _call's handler, after wait_closed(): clear reader, writer
HandlerDisconnected(c) ==
    /\ callers[c].pc = "h_disc"
    /\ Update(c, AfterHandler(callers[c]), 0, conns)
    /\ UNCHANGED <<lock, request_id, connected>>

\* await asyncio.sleep(RETRY_DELAY * (attempt + 1)), then the next attempt
Sleep(c) ==
    /\ callers[c].pc = "sleep"
    /\ LET a == callers[c].attempt IN
       Update(c, [callers[c] EXCEPT
                    !.pc = "lock", !.attempt = a + 1, !.got = None,
                    !.log = @ \o <<Ev("sleep", RETRY_DELAY * (a + 1)),
                                   Ev("attempt", a + 2)>>],
              writer, conns)
    /\ UNCHANGED <<lock, request_id, connected>>

\* The suspension points of _call at which a guarded caller can be cancelled.
Suspended == {"lock", "conn_disc", "opening", "read", "t_disc", "h_disc", "sleep"}

\* The engine's 30 s deadline expires: asyncio.wait_for cancels the call at
\* its suspension point; CancelledError is no Exception, so no handler of the
\* client runs, and the lock is released on the way out.
Cancel(c) ==
    /\ callers[c].guarded
    /\ callers[c].pc \in Suspended
    /\ lock' = IF lock = c THEN 0 ELSE lock
    /\ LET k == callers[c].rconn IN
       Update(c, [callers[c] EXCEPT !.pc = "cancelled", !.rconn = 0], writer,
              IF callers[c].pc = "read"
              THEN [conns EXCEPT ![k].failed = @ \cup {"cancelled"}]
              ELSE conns)
    /\ UNCHANGED <<request_id, connected>>

\* _find_spending_tx_electrs: except TimeoutError / Exception:
\*     await electrs.disconnect()      (up to wait_closed())
EngineDisconnect(c) ==
    /\ callers[c].guarded
    /\ callers[c].pc \in {"cancelled", "raised"}
    /\ connected' = FALSE
    /\ IF writer # 0
       THEN Update(c, [callers[c] EXCEPT !.pc = "e_disc"], writer, Closed(conns))
       ELSE Update(c, IdleCaller(callers[c].calls), 0, conns)
    /\ UNCHANGED <<lock, request_id>>

\* the engine's disconnect(), after wait_closed(): clear reader and writer
EngineDisconnected(c) ==
    /\ callers[c].pc = "e_disc"
    /\ Update(c, IdleCaller(callers[c].calls), 0, conns)
    /\ UNCHANGED <<lock, request_id, connected>>

\* _call returned its result, or raised to a caller that does not disconnect
\* (find_spending_tx skips a history entry whose transaction fetch raised)
CallEnds(c) ==
    /\ callers[c].pc \in {"returned", "raised"}
    /\ Update(c, IdleCaller(callers[c].calls), writer, conns)
    /\ UNCHANGED <<lock, request_id, connected>>

NextClient ==
    \E c \in Callers :
        \/ StartCall(c)
        \/ EnterCallOnce(c)
        \/ ConnectDisconnected(c)
        \/ OpenConnection(c)
        \/ OpenFails(c)
        \/ ReadResponse(c)
        \/ TimeoutDisconnected(c)
        \/ HandlerDisconnected(c)
        \/ Sleep(c)
        \/ Cancel(c)
        \/ EngineDisconnect(c)
        \/ EngineDisconnected(c)
        \/ CallEnds(c)

SpecClient == InitClient /\ [][NextClient]_vars

\* ==================================================== claims on the client
\* Caller c writes a request to connection k in this step.
Writes(c, k) ==
    callers[c].pc # "read" /\ callers'[c].pc = "read" /\ callers'[c].rconn = k
\* Caller c reads a response line from connection k in this step.
ReadsLine(c, k) ==
    /\ callers[c].pc = "read" /\ callers[c].rconn = k
    /\ callers'[c].pc # "read" /\ callers'[c].got \in LineRead
\* Caller c gets the lock and runs connect() in this step.
Enters(c) == callers[c].pc = "lock" /\ callers'[c].pc \notin {"lock", "cancelled"}

\* C7: under any interleaving of the callers at most one request is in flight:
\* no connection ever carries two requests written to it whose response lines
\* have not been read.
C7_OneInFlight == \A k \in Conns : conns[k].pending <= 1
\* a caller waits for the lock while another's request is in flight
C7_Witness ==
    \E c, d \in Callers :
        /\ callers[c].pc = "read" /\ conns[callers[c].rconn].pending = 1
        /\ callers[d].pc = "lock"
\* What the lock does give: the callers inside _call_once are its holder only.
InsideCallOnce == {"conn_disc", "opening", "read", "t_disc"}
LockSerialises ==
    \A c \in Callers : callers[c].pc \in InsideCallOnce => lock = c

\* The request-level failures after which the session must be torn down:
\* the 60 s read deadline, the engine's deadline cancelling the call, an
\* empty line, undecodable JSON, a stream error.
RequestFailures == {"timeout", "cancelled", "empty", "badjson", "io_error"}
NotUsedAfter(kinds) ==
    \A c \in Callers, k \in Conns :
        (Writes(c, k) \/ ReadsLine(c, k)) => conns[k].failed \cap kinds = {}

\* C8: after a request-level timeout or a framing/JSON error no later request
\* is written to, and no later response read from, the connection on which
\* the failed request was sent.
C8_TornDownBeforeNext == [][NotUsedAfter(RequestFailures)]_vars
\* a request was cancelled by the engine's deadline after it was written
C8_Witness ==
    \E k \in Conns : "cancelled" \in conns[k].failed /\ conns[k].pending >= 1
\* The same, for the failures the client detects itself: this part holds.
C8_ClientFailuresTornDown ==
    [][NotUsedAfter(RequestFailures \ {"cancelled"})]_vars

\* The log of one _call follows the retry loop: entry i of log is what the
\* loop allows after entry i - 1.
Follows(log, i) ==
    LET e == log[i]
        n == e[2]
        prev == log[i - 1]
    IN
    CASE e[1] = "attempt" ->
            /\ n <= MAX_RETRIES
            /\ IF i = 1 THEN n = 1
               ELSE n > 1 /\ prev = Ev("sleep", RETRY_DELAY * (n - 1))
      [] e[1] = "failed" -> i > 1 /\ prev = Ev("attempt", n)
      [] e[1] = "disconnect" -> i > 1 /\ prev = Ev("failed", n)
      [] e[1] = "sleep" ->
            /\ i > 1 /\ prev[1] = "disconnect"
            /\ n = RETRY_DELAY * prev[2] /\ prev[2] < MAX_RETRIES
      [] e[1] = "return" -> i > 1 /\ prev = Ev("attempt", n) /\ i = Len(log)
      [] e[1] = "raise" ->
            /\ i > 1 /\ prev = Ev("disconnect", MAX_RETRIES)
            /\ n = MAX_RETRIES /\ i = Len(log)
      [] OTHER -> FALSE
RetryLog(log) == \A i \in 1..Len(log) : Follows(log, i)
\* A step that logs the disconnect of a failed attempt leaves the client
\* disconnected, its writer closed or cleared.
DisconnectLogged ==
    \A c \in Callers :
        (/\ Len(callers'[c].log) > Len(callers[c].log)
         /\ \E i \in 1..Len(callers'[c].log) :
                i > Len(callers[c].log) /\ callers'[c].log[i][1] = "disconnect")
        => ~connected' /\ (writer' = 0 \/ conns'[writer'].closed)
\* A caller in the next attempt, or raising, has slept, or failed, as logged.
AttemptLogged ==
    \A c \in Callers :
        LET rec == callers[c] IN
        /\ rec.pc \notin {"idle", "cancelled", "e_disc"} =>
              \E i \in 1..Len(rec.log) : rec.log[i] = Ev("attempt", rec.attempt + 1)
        /\ rec.pc = "returned" => Last(rec.log) = Ev("return", rec.attempt + 1)
        /\ rec.pc = "raised" => Last(rec.log) = Ev("raise", MAX_RETRIES)
        /\ rec.pc = "sleep" => Last(rec.log) = Ev("disconnect", rec.attempt + 1)

\* C9: a logical call makes at most MAX_RETRIES attempts, returns at its
\* first successful attempt, disconnects after each failed attempt and sleeps
\* RETRY_DELAY x attempt number before the next, and raises only after
\* attempt MAX_RETRIES has failed.
C9_RetryLoop ==
    /\ [](\A c \in Callers : RetryLog(callers[c].log) /\ callers[c].attempt < MAX_RETRIES)
    /\ []AttemptLogged
    /\ [][DisconnectLogged]_vars
\* a call raises after its last attempt has failed
C9_Witness ==
    \E c \in Callers :
        /\ callers[c].pc = "raised"
        /\ \E i \in 1..Len(callers[c].log) :
              callers[c].log[i] = Ev("sleep", RETRY_DELAY * (MAX_RETRIES - 1))

\* C10: a call made while connected with an open writer opens no connection
\* and sends on the one it has; a call made after an error on the client's
\* connection finds the client disconnected; and no request is sent on a
\* connection on which a request has failed.
C10_Step ==
    \A c \in Callers :
        /\ (Enters(c) /\ connected /\ writer # 0 /\ ~conns[writer].closed)
              => writer' = writer /\ Writes(c, writer)
        /\ (Enters(c) /\ writer # 0 /\ conns[writer].failed # {}) => ~connected
        /\ \A k \in Conns : Writes(c, k) => conns[k].failed = {}
C10_ReuseAndReplace == [][C10_Step]_vars
\* an error response was read and the client is disconnected
C10_Witness ==
    \E c \in Callers : callers[c].got = "rpc_error" /\ ~connected /\ request_id >= 2

\* =========================================================================
\* The lines of one connection: calls serialised by the lock, each reading
\* the next line of the stream as its response (_call_once), against a server
\* that answers requests in order and pushes header notifications to a
\* subscribed connection.
\* =========================================================================
\* get_tip calls blockchain.headers.subscribe; every other method of the
\* client is a plain request.
WireMethods == {"blockchain.headers.subscribe", "blockchain.transaction.get"}
Response(id) == [kind |-> "response", id |-> id]
Notification == [kind |-> "notification", id |-> 0]

\* response = json.loads(response_line); no "error": return response.get("result")
\* the result of request n is written n; a line without "result" gives None (0)
ResultOf(line) == IF line.kind = "response" THEN line.id ELSE 0

\* An open connection before its first request.
InitWire ==
    /\ WireIdle /\ TraceIdle /\ NoFunctionCall
    /\ connected = TRUE
    /\ lock = 0 /\ reader = 1 /\ writer = 1
    /\ conns = [k \in Conns |-> NoConn]
    /\ request_id = 0
    /\ callers = [c \in Callers |-> IdleCaller(0)]

wireRest == <<traceVars, lock, reader, writer, conns, callers, callVars>>

\* self._request_id += 1; self._writer.write(request_line); await readline()
WireSend ==
    /\ in_call = NoCall
    /\ request_id < MaxWireCalls
    /\ \E method \in WireMethods :
        /\ request_id' = request_id + 1
        /\ in_call' = [id |-> request_id + 1, method |-> method]
        /\ unanswered' = Append(unanswered, <<request_id + 1, method>>)
    /\ UNCHANGED <<wireRest, subscribed, inbox, notified, returns>>

\* The server answers its oldest request; answering a subscription subscribes
\* the connection.
ServerRespond ==
    /\ unanswered # <<>>
    /\ inbox' = Append(inbox, Response(Head(unanswered)[1]))
    /\ unanswered' = Tail(unanswered)
    /\ subscribed' =
          (subscribed \/ Head(unanswered)[2] = "blockchain.headers.subscribe")
    /\ UNCHANGED <<wireRest, request_id, in_call, notified, returns>>

\* A new block: the server pushes a header notification to the connection.
ServerNotify ==
    /\ subscribed
    /\ notified < MaxNotifications
    /\ inbox' = Append(inbox, Notification)
    /\ notified' = notified + 1
    /\ UNCHANGED <<wireRest, request_id, subscribed, in_call, unanswered, returns>>

\* response_line = await readline(): the next line of the stream, whatever
\* it is; the call returns its "result".
WireRead ==
    /\ in_call # NoCall
    /\ inbox # <<>>
    /\ inbox' = Tail(inbox)
    /\ returns' = Append(returns, [id |-> in_call.id, method |-> in_call.method,
                                   line |-> Head(inbox),
                                   result |-> ResultOf(Head(inbox))])
    /\ in_call' = NoCall
    /\ UNCHANGED <<wireRest, request_id, subscribed, unanswered, notified>>

NextWire == WireSend \/ ServerRespond \/ ServerNotify \/ WireRead

SpecWire == InitWire /\ [][NextWire]_vars

\* C11: header notifications are discarded: every call returns the result of
\* the response to its own request, never a notification line or a value
\* derived from one.
C11_NotificationsDiscarded ==
    \A i \in 1..Len(returns) :
        /\ returns[i].line = Response(returns[i].id)
        /\ returns[i].result = returns[i].id
\* after get_tip, a notification was pushed and a later call has completed
C11_Witness ==
    /\ notified >= 1
    /\ \E i, j \in 1..Len(returns) :
          /\ i < j
          /\ returns[i].method = "blockchain.headers.subscribe"
          /\ returns[i].line = Response(returns[i].id)

\* =========================================================================
\* Single functions, each followed over one call: args holds the arguments
\* and the answers its dependencies give, ret what it returns.
\* =========================================================================
callRest == <<traceVars, clientVars, wireVars>>
\* Nothing else of the program runs meanwhile.
OnlyTheCall == ClientIdle /\ WireIdle /\ TraceIdle /\ connected = FALSE

\* ------------------------------------------------------- find_spending_tx
\* Longest scripthash history the server returns.
MaxHistory == 3
\* The output looked up is (Seed, vout); the history names Seed and others.
Raised == "raised"
\* vin of a decoded history transaction: no input, the output looked up,
\* inputs that share only its txid or only its index, or both kinds.
NearMisses(vout) == << <<Seed, 1 - vout>>, <<"tb", vout>> >>
VinLists(vout) ==
    { <<>>, << <<Seed, vout>> >>, NearMisses(vout),
      NearMisses(vout) \o << <<Seed, vout>> >> }
\* What fetching a history entry's transaction gives.
Fetches(vout) ==
    {[kind |-> k, vin |-> <<>>] : k \in {"error", "hex"}}
        \cup {[kind |-> "dict", vin |-> v] : v \in VinLists(vout)}
HistoryEntries(vout) ==
    {[txid |-> t, fetch |-> f] : t \in HistoryTx, f \in Fetches(vout)}
Histories(vout) ==
    UNION {[1..n -> HistoryEntries(vout)] : n \in 0..MaxHistory}
\* How the steps before the scan end: ElectrsClient.find_spending_tx fetches
\* the source transaction and reads the address of its output;
\* KYCPrivacyTracer._find_spending_tx is handed the address.
Preambles(variant) ==
    IF variant = "electrs"
    THEN {"ok", "tx_raises", "tx_missing", "vout_range", "no_address",
          "history_raises"}
    ELSE {"ok", "history_raises"}

\* if vin.get("txid") == txid and vin.get("vout") == vout
SpendsOutput(vin, txid, vout) ==
    \E i \in 1..Len(vin) : vin[i][1] = txid /\ vin[i][2] = vout

\* the scan without its skip of the source transaction
MutSkipSource(hist_txid, txid) == FALSE
\* if hist_tx.txid == txid: continue
SkipSource(hist_txid, txid) == hist_txid = txid

\* for hist_tx in history: ... from entry i on
RECURSIVE ScanHistory(_, _, _, _)
ScanHistory(history, i, txid, vout) ==
    IF i > Len(history) THEN None
    ELSE LET hist_tx == history[i] IN
         IF SkipSource(hist_tx.txid, txid)
            THEN ScanHistory(history, i + 1, txid, vout)
         ELSE IF hist_tx.fetch.kind # "dict"
            THEN ScanHistory(history, i + 1, txid, vout)
         ELSE IF SpendsOutput(hist_tx.fetch.vin, txid, vout)
            THEN hist_tx.txid
         ELSE ScanHistory(history, i + 1, txid, vout)

\* ElectrsClient.find_spending_tx / KYCPrivacyTracer._find_spending_tx
FindSpendingTxOf(a) ==
    CASE a.pre = "tx_raises" -> Raised
      [] a.pre \in {"tx_missing", "vout_range", "no_address"} -> None
      [] a.pre = "history_raises" ->
            IF a.variant = "electrs" THEN Raised ELSE None
      [] OTHER -> ScanHistory(a.history, 1, Seed, a.vout)

InitFind ==
    /\ OnlyTheCall
    /\ ret = Pending
    /\ cached = [t \in Tx |-> Absent]
    /\ \E variant \in {"electrs", "kyc"}, vout \in 0..1 :
       \E pre \in Preambles(variant), history \in Histories(vout) :
         args = [variant |-> variant, vout |-> vout, pre |-> pre,
                 history |-> history]

FindSpendingTx ==
    /\ ret = Pending
    /\ ret' = FindSpendingTxOf(args)
    /\ UNCHANGED <<args, cached, callRest>>

SpecFind == InitFind /\ [][FindSpendingTx]_vars

\* Entry i of the history is not the source transaction and its decoded
\* transaction has an input referencing the output looked up.
Qualifies(i) ==
    LET e == args.history[i] IN
    /\ e.txid # Seed
    /\ e.fetch.kind = "dict"
    /\ \E j \in 1..Len(e.fetch.vin) : e.fetch.vin[j] = <<Seed, args.vout>>
FirstQualifying ==
    {i \in 1..Len(args.history) : Qualifies(i) /\ \A j \in 1..(i-1) : ~Qualifies(j)}

\* C12: find_spending_tx returns the first history entry, in order, that is
\* not the source transaction and whose decoded transaction spends the
\* output; none without address, with an empty history or with no such
\* entry; never the source txid.
C12_FindSpendingTx ==
    ret # Pending =>
        /\ ret # Seed
        /\ (args.pre = "ok" /\ FirstQualifying # {}) =>
              \A i \in FirstQualifying : ret = args.history[i].txid
        /\ (args.pre = "ok" /\ FirstQualifying = {}) => ret = None
        /\ args.pre \in {"no_address", "tx_missing", "vout_range"} => ret = None
\* the spender is found behind the source transaction itself, a transaction
\* that could not be decoded and one that spends another output
C12_Witness ==
    /\ ret = "tc"
    /\ Len(args.history) = 3
    /\ args.history[1].txid = Seed
    /\ args.history[2].txid = "tb" /\ ~Qualifies(2)
    /\ Qualifies(3)

\* ------------------------------------------------------ _get_transaction
\* UTXOTracer._get_transaction and KYCPrivacyTracer._get_transaction are the
\* same code; clear_cache exists on UTXOTracer.
CacheCleared == "cleared"

\* if isinstance(cached, dict): return cached / else: del self._tx_cache[txid]
AfterRead(entry) == IF entry = "dict" THEN entry ELSE Absent

\* the store without its isinstance test: any non-empty answer is kept
MutStored(kind) == IF kind \in {"dict", "hex"} THEN kind ELSE Absent
\* if tx and isinstance(tx, dict): self._tx_cache[txid] = tx
Stored(kind) == IF kind = "dict" THEN kind ELSE Absent

\* One call: the entry left behind, the value returned, whether the node
\* was asked.
GetTransactionOf(entry, kind) ==
    IF AfterRead(entry) # Absent
    THEN [entry |-> entry, ret |-> entry, rpc |-> FALSE]
    ELSE [entry |-> Stored(kind),
          ret   |-> IF kind = "dict" THEN kind ELSE None,
          rpc   |-> TRUE]

cacheRest == <<pc, direction, max_depth, electrs, queue, visited, tx_count,
               consecutive_electrs_failures, electrs_disabled,
               electrs_lookup_count, lookup_log, result,
               chain_nvout, chain_vin, chain_shape, connected, expired, clientVars,
               wireVars>>

InitCache == OnlyTheCall /\ NoFunctionCall

GetTransaction ==
    \E txid \in Tx, kind \in RpcTxKinds :
      LET out == GetTransactionOf(cached[txid], kind) IN
      /\ args' = [op |-> "_get_transaction", txid |-> txid,
                  kind |-> IF out.rpc THEN kind ELSE None]
      /\ ret' = out.ret
      /\ cached' = [cached EXCEPT ![txid] = out.entry]
      /\ tx_cache' = CacheAfter(tx_cache, txid, kind)
      /\ UNCHANGED cacheRest

\* self._tx_cache.clear()
ClearCache ==
    /\ args' = [op |-> "clear_cache", txid |-> None, kind |-> None]
    /\ ret' = CacheCleared
    /\ cached' = [t \in Tx |-> Absent]
    /\ tx_cache' = {}
    /\ UNCHANGED cacheRest

NextCache == GetTransaction \/ ClearCache
SpecCache == InitCache /\ [][NextCache]_vars

\* C13: whatever the node answers (decoded object, hex string, null, error)
\* and whenever the cache is cleared, every entry of the cache is a decoded
\* object; a hex string or a null is never stored, a call answers with a
\* decoded object or with none, and the txids a trace takes from the cache
\* are exactly those holding one.
C13_CacheSound ==
    /\ \A t \in Tx : cached[t] \in {Absent, "dict"}
    /\ tx_cache = {t \in Tx : cached[t] = "dict"}
    /\ ret \in {Pending, CacheCleared, None, "dict"}
    /\ (ret = None /\ args.kind # None) =>
          args.kind \in {"hex", "null", "error"} /\ cached[args.txid] = Absent
\* a hex answer came back as none and left no entry while another
\* transaction stays cached
C13_Witness ==
    /\ ret = None
    /\ args.kind = "hex"
    /\ cached[args.txid] = Absent
    /\ \E t \in Tx : cached[t] = "dict"

\* =========================================================================
\* Further properties of one trace (specification Spec).
\* =========================================================================

\* C14: no error of a dependency inside the traversal loop (getrawtransaction,
\* gettxout, the Electrum lookup) aborts the trace: it goes on or returns its
\* TraceResult, it never ends by raising.
C14_ErrorsNeverAbort == pc # "raised"
\* gettxout fails on an entry behind the seed, after nodes were recorded
C14_Witness ==
    /\ pc = "raised"
    /\ Nodes # <<>>
    /\ visited # {}

\* The steps that take an entry off the queue.
ProcessesEntry == visited' # visited \/ Len(queue') < Len(queue)

\* C15: a trace, forward or backward, still in its loop once the deadline
\* has passed takes no further entry off its queue: its next step leaves the
\* loop with hit_limit set and the timeout warning recorded.
C15_DeadlineStops ==
    [][(pc = "loop" /\ LoopGuard /\ expired) =>
          /\ ~ProcessesEntry
          /\ pc' = "finish"
          /\ result'.hit_limit
          /\ Last(result'.warnings) = Warn("Trace timeout", <<>>)]_vars
\* a backward trace in its loop, entries left, after the deadline
C15_Witness ==
    /\ direction = "backward"
    /\ pc = "loop" /\ LoopGuard /\ expired
    /\ Nodes # <<>>

\* The most entries one iteration appends: the outputs of the spending
\* transaction, or the parents of the transaction visited.
MaxAppended == IF direction = "forward" THEN MaxVout ELSE 2
\* The entries left of the queue once the loop top has cut it and the head
\* has been popped.
KeptEntries ==
    SubSeq(queue, 2, IF Len(queue) > MAX_QUEUE_SIZE THEN MAX_QUEUE_SIZE
                     ELSE Len(queue))

\* C16 as stated: the queue never holds more than MAX_QUEUE_SIZE entries,
\* and a recorded truncation goes with hit_limit.
C16_QueueNeverExceeds ==
    /\ Len(queue) <= MAX_QUEUE_SIZE
    /\ WarningCount("Queue size exceeded") > 0 => result.hit_limit

\* C16: the queue is cut at the top of each iteration, not when entries are
\* appended: every entry is popped from a queue of at most MAX_QUEUE_SIZE
\* entries, the oldest MAX_QUEUE_SIZE survive in order and the newest are
\* dropped with a 'Queue size exceeded' warning and hit_limit; in between
\* the queue exceeds the cap by at most what one iteration appends, and a
\* trace that returns with such a queue has hit_limit set.
C16_QueueState ==
    /\ Len(queue) <= MAX_QUEUE_SIZE - 1 + MaxAppended
    /\ WarningCount("Queue size exceeded") > 0 => result.hit_limit
    /\ (pc = "done" /\ Len(queue) > MAX_QUEUE_SIZE) => result.hit_limit
C16_QueueStep ==
    ProcessesEntry =>
        /\ Len(queue') >= Len(KeptEntries)
        /\ SubSeq(queue', 1, Len(KeptEntries)) = KeptEntries
        /\ Len(queue') <= Len(KeptEntries) + MaxAppended
        /\ IF Len(queue) > MAX_QUEUE_SIZE
           THEN /\ result'.hit_limit
                /\ WarningCount("Queue size exceeded")' =
                      WarningCount("Queue size exceeded") + 1
           ELSE WarningCount("Queue size exceeded")' =
                      WarningCount("Queue size exceeded")
C16_QueueCap == []C16_QueueState /\ [][C16_QueueStep]_vars
\* the queue was cut once and has grown past the cap again
C16_Witness ==
    /\ WarningCount("Queue size exceeded") > 0
    /\ Len(queue) > MAX_QUEUE_SIZE
    /\ pc = "loop"

\* A finished forward trace over a linear chain of spends longer than
\* max_depth: one node per depth 0..max_depth, every output spent, every
\* spender looked up was found by Electrum and has a single output.
LinearChain ==
    /\ direction = "forward" /\ pc = "done"
    /\ max_depth >= 0
    /\ Len(Nodes) = max_depth + 1
    /\ Len(Edges) = max_depth
    /\ \A i \in 1..Len(Nodes) :
          /\ Nodes[i].depth = i - 1
          /\ Nodes[i].status = "spent"
          /\ i <= max_depth =>
                /\ Nodes[i].spent_by_txid # None
                /\ Nodes[i + 1].txid = Nodes[i].spent_by_txid
                /\ chain_nvout[Nodes[i + 1].txid] = 1

\* C17: a forward trace over a linear chain longer than max_depth ends with
\* total_transactions = max_depth + 1, its last node at depth max_depth, and
\* a 'Depth limit reached' warning.
C17_DepthCap ==
    LinearChain =>
        /\ result.total_transactions = max_depth + 1
        /\ Last(Nodes).depth = max_depth
        /\ WarningCount("Depth limit reached") > 0
\* the chain was followed down to max_depth and the trace returned
C17_Witness ==
    /\ LinearChain
    /\ max_depth = MAX_TRACE_DEPTH
    /\ result.total_transactions = max_depth + 1
    /\ Last(Nodes).depth = max_depth
    /\ Warnings = <<>>

\* The nodes recorded for an output, and for the outputs of a transaction.
NodesOfOutput(txid, vout) ==
    {i \in 1..Len(Nodes) : Nodes[i].txid = txid /\ Nodes[i].vout = vout}
NodesOfTx(txid) == {i \in 1..Len(Nodes) : Nodes[i].txid = txid}

\* C18: in a forward trace, for every edge (from_txid, from_vout) -> to_txid
\* every node of to_txid lies one level below the node of the output spent,
\* also when one transaction spends traced outputs of different depths.
C18_DepthMonotone ==
    direction = "forward" =>
        \A e \in 1..Len(Edges) :
            \A u \in NodesOfOutput(Edges[e].from_txid, Edges[e].from_vout),
               v \in NodesOfTx(Edges[e].to_txid) :
                Nodes[v].depth = Nodes[u].depth + 1
\* C18, as the code has it: the depth of a node is its distance from the
\* seed along the shortest traced path. Every node below the seed has an
\* edge into its transaction from a node one level above it, and, as long as
\* the queue was never cut, no edge into its transaction comes from a node
\* more than one level above it.
C18_DepthShortest ==
    direction = "forward" =>
        /\ \A v \in 1..Len(Nodes) :
              Nodes[v].depth > 0 =>
                \E e \in 1..Len(Edges) :
                  /\ Edges[e].to_txid = Nodes[v].txid
                  /\ \E u \in NodesOfOutput(Edges[e].from_txid,
                                            Edges[e].from_vout) :
                        Nodes[v].depth = Nodes[u].depth + 1
        /\ WarningCount("Queue size exceeded") = 0 =>
              \A e \in 1..Len(Edges) :
                \A u \in NodesOfOutput(Edges[e].from_txid, Edges[e].from_vout),
                   v \in NodesOfTx(Edges[e].to_txid) :
                    Nodes[v].depth <= Nodes[u].depth + 1
\* one transaction spends two traced outputs of different depths, and its
\* own output has a node
C18_Witness ==
    /\ direction = "forward" /\ pc = "done"
    /\ \E e, f \in 1..Len(Edges) :
          /\ Edges[e].to_txid = Edges[f].to_txid
          /\ NodesOfTx(Edges[e].to_txid) # {}
          /\ \E u \in NodesOfOutput(Edges[e].from_txid, Edges[e].from_vout),
                w \in NodesOfOutput(Edges[f].from_txid, Edges[f].from_vout) :
                Nodes[u].depth < Nodes[w].depth

\* The entries marked visited that the loop gave up on, each with its warning.
GivenUp ==
    WarningCount("Depth limit reached") + WarningCount("Transaction not found")
        + WarningCount("Invalid vout")

\* C19 as stated: at the end of a trace there is one node per visited entry.
C19_NodePerVisited == pc = "done" => Len(Nodes) = Cardinality(visited)

\* C19: an entry is marked visited before its transaction is fetched, and an
\* entry the loop gives up on (depth limit, transaction the node cannot
\* return, vout out of range) leaves a warning and no node: the nodes and
\* those warnings together are as many as the visited entries.
C19_NodeOrWarningPerVisited ==
    pc # "raised" => Len(Nodes) + GivenUp = Cardinality(visited)
\* a finished trace with nodes, and with visited entries that gave none
C19_Witness ==
    /\ pc = "done"
    /\ Nodes # <<>>
    /\ WarningCount("Transaction not found") > 0
    /\ Len(Nodes) < Cardinality(visited)

IsUnspent(node) == node.status = "unspent"

\* C20: in a forward trace unspent_endpoints is the sub-sequence of nodes
\* whose status is unspent, and an output gettxout reports unspent is never
\* extended: the step that records it makes no lookup, adds no edge and
\* queues nothing, and no edge ever leaves an unspent node.
C20_EndpointsState ==
    direction = "forward" =>
        /\ result.unspent_endpoints = SelectSeq(Nodes, IsUnspent)
        /\ \A e \in 1..Len(Edges) :
              \A u \in NodesOfOutput(Edges[e].from_txid, Edges[e].from_vout) :
                  ~IsUnspent(Nodes[u])
C20_EndpointsStep ==
    (direction = "forward" /\ Len(Nodes') = Len(Nodes) + 1
        /\ IsUnspent(Last(Nodes'))) =>
        /\ electrs_lookup_count' = electrs_lookup_count
        /\ lookup_log' = lookup_log
        /\ Edges' = Edges
        /\ queue' = Tail(TruncatedQueue)
        /\ Last(Nodes').spent_by_txid = None
C20_UnspentEndpoints == []C20_EndpointsState /\ [][C20_EndpointsStep]_vars
\* a returned trace that followed a spent output to an unspent one
C20_Witness ==
    /\ direction = "forward" /\ pc = "done"
    /\ Edges # <<>>
    /\ Len(result.unspent_endpoints) > 0
    /\ Len(result.unspent_endpoints) < Len(Nodes)

\* =========================================================================
\* Traces over a chain with CoinJoin transactions (specification SpecMix).
\* =========================================================================
SpecMix == InitMix /\ [][Next]_vars

CoinjoinTxids == result.coinjoin_txids
Listed(txid) == \E i \in 1..Len(CoinjoinTxids) : CoinjoinTxids[i] = txid

\* C21: coinjoin_txids holds no txid twice, every txid in it is that of a
\* node whose coinjoin_score is above 0.7, and every node scored above 0.7
\* has its txid listed: a transaction scoring exactly 0.70 is not listed, a
\* visited Whirlpool transaction (0.95) is.
C21_CoinjoinTxids ==
    /\ \A i, j \in 1..Len(CoinjoinTxids) :
          CoinjoinTxids[i] = CoinjoinTxids[j] => i = j
    /\ \A i \in 1..Len(CoinjoinTxids) :
          \E n \in 1..Len(Nodes) :
              Nodes[n].txid = CoinjoinTxids[i] /\ Nodes[n].coinjoin_score > 70
    /\ \A n \in 1..Len(Nodes) :
          /\ Nodes[n].status # "coinbase" =>
                Nodes[n].coinjoin_score =
                    CoinjoinScoreFast(chain_shape[Nodes[n].txid])
          /\ Listed(Nodes[n].txid) <=> Nodes[n].coinjoin_score > 70
\* a returned trace that met a transaction scoring 0.70, not listed, and a
\* Whirlpool transaction, listed
C21_Witness ==
    /\ pc = "done"
    /\ \E n, m \in 1..Len(Nodes) :
          /\ Nodes[n].coinjoin_score = 70 /\ ~Listed(Nodes[n].txid)
          /\ chain_shape[Nodes[m].txid] = WhirlpoolTx
          /\ Nodes[m].coinjoin_score = 95 /\ Listed(Nodes[m].txid)

\* =========================================================================
\* The effective depth of a trace (specification SpecDepth): the first lines
\* of trace_forward and trace_backward, for any argument.
\* =========================================================================
InitDepth ==
    /\ OnlyTheCall
    /\ ret = Pending
    /\ cached = [t \in Tx |-> Absent]
    /\ \E given \in BOOLEAN, arg \in (-DepthRange)..DepthRange :
          args = [given |-> given, max_depth |-> IF given THEN arg ELSE 0,
                  called |-> FALSE]

ClampDepth ==
    /\ ~args.called
    /\ args' = [args EXCEPT !.called = TRUE]
    /\ ret' = EffectiveDepth(args.given, args.max_depth)
    /\ UNCHANGED <<cached, callRest>>

SpecDepth == InitDepth /\ [][ClampDepth]_vars

\* C22 as stated: whatever the caller passes, the trace runs with a depth
\* between 1 and the maximum.
C22_DepthInRange == args.called => ret \in 1..MAX_TRACE_DEPTH

\* C22: the depth is capped from above only: the default when none is
\* passed, the maximum for values above it, the value itself otherwise, zero
\* and negative values included.
C22_DepthCapped ==
    args.called =>
        /\ ret <= MAX_TRACE_DEPTH
        /\ ~args.given => ret = DEFAULT_TRACE_DEPTH
        /\ (args.given /\ args.max_depth > MAX_TRACE_DEPTH) =>
              ret = MAX_TRACE_DEPTH
        /\ (args.given /\ args.max_depth <= MAX_TRACE_DEPTH) =>
              ret = args.max_depth
\* a depth below 1 was passed and is the depth the trace runs with
C22_Witness ==
    /\ args.called
    /\ args.given /\ args.max_depth < 1
    /\ ret = args.max_depth

\* =========================================================================
\* Traces at the edges of their input: depth zero, a seed the node does not
\* return, no Electrum server.
\* =========================================================================
\* The trace returned, and its seed is an output of a transaction the node
\* returned.
SeedAvailable ==
    /\ pc = "done"
    /\ Seed \in tx_cache
    /\ WarningCount("Invalid vout") = 0

\* C23: with max_depth = 0 and the seed's transaction available the trace
\* returns exactly one node, the seed at depth 0, and no edge, forward and
\* backward, whether the output is spent or not and whether Electrum is
\* available or not; no lookup is made and nothing is left queued.
C23_DepthZero ==
    (SeedAvailable /\ max_depth = 0) =>
        /\ Len(Nodes) = 1
        /\ Nodes[1].txid = Seed
        /\ Nodes[1].depth = 0
        /\ Edges = <<>>
        /\ queue = <<>>
        /\ electrs_lookup_count = 0
        /\ result.total_transactions = 1
        /\ direction = "forward" => visited = {<<Seed, Nodes[1].vout>>}
        /\ direction = "backward" => visited = {Seed}
\* a forward trace of depth 0 over a spent seed with Electrum connected
C23_Witness ==
    /\ SeedAvailable /\ max_depth = 0
    /\ direction = "forward"
    /\ electrs /\ connected
    /\ Len(Nodes) = 1 /\ Nodes[1].status = "spent"
    /\ Edges = <<>>

\* The trace returned after the node failed to return the seed's transaction:
\* the seed was taken from the queue, passed the depth check and is not in
\* the cache.
SeedNotFetched ==
    /\ pc = "done"
    /\ visited # {}
    /\ WarningCount("Depth limit reached") = 0
    /\ Seed \notin tx_cache

\* C24: when the node does not return the seed's transaction (null, a hex
\* string or an error) the trace does not raise and returns a result with no
\* node, no edge, total_transactions = 0 and a 'Transaction not found'
\* warning that names the seed txid.
C24_SeedNotFound ==
    /\ pc = "raised" => Seed \in tx_cache
    /\ SeedNotFetched =>
          /\ Nodes = <<>>
          /\ Edges = <<>>
          /\ result.unspent_endpoints = <<>>
          /\ result.coinbase_origins = <<>>
          /\ result.total_transactions = 0
          /\ \E i \in 1..Len(Warnings) :
                Warnings[i] = Warn("Transaction not found", <<Seed>>)
\* a backward trace returned after the fetch of its seed failed
C24_Witness ==
    /\ SeedNotFetched
    /\ direction = "backward"
    /\ Warnings = <<Warn("Transaction not found", <<Seed>>)>>
    /\ Nodes = <<>>

\* No lookup has been made and the client holds no connection: the Electrum
\* server was not reachable when the forward trace started.
ElectrumDownAtStart ==
    /\ direction = "forward"
    /\ lookup_log = <<>>
    /\ ~connected
ElectrumNotice ==
    \E i \in 1..Len(Warnings) : Warnings[i].kind = "Electrs not available"

\* C25: when Electrum is not available at the start of a forward trace, the
\* result has electrs_enabled false and the Electrum-unavailable notice, and
\* the trace reaches one level: the seed output alone, spent or unspent, and
\* no edge.
C25_OneLevel ==
    ElectrumDownAtStart =>
        /\ ~result.electrs_enabled
        /\ ElectrumNotice
        /\ (SeedAvailable =>
              /\ Len(Nodes) = 1
              /\ Nodes[1].txid = Seed
              /\ Nodes[1].status \in {"spent", "unspent"}
              /\ Nodes[1].spent_by_txid = None
              /\ Edges = <<>>)
\* a configured server that was unreachable from the start to the end of the
\* trace: the result is flagged enabled and carries no notice
C25_Witness ==
    /\ pc = "done" /\ direction = "forward"
    /\ SeedAvailable
    /\ lookup_log # <<>>
    /\ \A i \in 1..Len(lookup_log) : lookup_log[i] = "error"
    /\ ~connected
    /\ Len(Nodes) = 1 /\ Edges = <<>>
    /\ result.electrs_enabled
    /\ ~ElectrumNotice

\* =========================================================================
\* The engine accessor and the traces that go through it (specification
\* SpecTracers). Here cached holds, for each txid of the engine's _tx_cache,
\* the trace whose fetch stored it; args holds the module's _tracer_instance
\* and the position of each trace; ret is the last read answered from the
\* cache.
\* =========================================================================
TraceNames == {"trace1", "trace2"}
NoRead == [reader |-> None, txid |-> None, writer |-> None]
TraceAt(pos, txid) == [pc |-> pos, txid |-> txid]

InitTracers ==
    /\ OnlyTheCall
    /\ args = [instance |-> FALSE,
               traces |-> [k \in TraceNames |-> TraceAt("idle", None)]]
    /\ ret = NoRead
    /\ cached = [t \in Tx |-> Absent]

\* tracer = get_tracer(): the instance is created on the first call, with an
\* empty cache, and handed out as it is on every later one
GetTracer ==
    \E k \in TraceNames :
        /\ args.traces[k].pc = "idle"
        /\ args' = [instance |-> TRUE,
                    traces |-> [args.traces EXCEPT ![k] = TraceAt("running", None)]]
        /\ cached' = IF args.instance THEN cached ELSE [t \in Tx |-> Absent]
        /\ UNCHANGED <<ret, tx_cache, cacheRest>>

\* _get_transaction up to its await: a cached transaction is returned, else
\* the node is asked
CacheLookup ==
    \E k \in TraceNames, txid \in Tx :
        /\ args.traces[k].pc = "running"
        /\ IF cached[txid] # Absent
           THEN /\ ret' = [reader |-> k, txid |-> txid, writer |-> cached[txid]]
                /\ args' = args
           ELSE /\ ret' = ret
                /\ args' = [args EXCEPT !.traces[k] = TraceAt("fetching", txid)]
        /\ UNCHANGED <<cached, tx_cache, cacheRest>>

\* the node answers: a decoded transaction is stored in the cache
RpcAnswer ==
    \E k \in TraceNames, kind \in RpcTxKinds :
        /\ args.traces[k].pc = "fetching"
        /\ cached' = IF kind = "dict"
                     THEN [cached EXCEPT ![args.traces[k].txid] = k]
                     ELSE cached
        /\ args' = [args EXCEPT !.traces[k] = TraceAt("running", None)]
        /\ UNCHANGED <<ret, tx_cache, cacheRest>>

\* the trace returns its result; nothing clears the cache
ReturnTrace ==
    \E k \in TraceNames :
        /\ args.traces[k].pc = "running"
        /\ args' = [args EXCEPT !.traces[k] = TraceAt("done", None)]
        /\ UNCHANGED <<ret, cached, tx_cache, cacheRest>>

NextTracers == GetTracer \/ CacheLookup \/ RpcAnswer \/ ReturnTrace
SpecTracers == InitTracers /\ [][NextTracers]_vars

\* C26: the transaction cache is not shared across traces: a trace started
\* through get_tracer never reads a cache entry written by another trace,
\* whether the traces run one after another or interleaved.
C26_CacheNotShared == ret # NoRead => ret.writer = ret.reader
\* the second trace, started after the first returned, is answered from an
\* entry the first one stored
C26_Witness ==
    /\ args.traces["trace1"].pc = "done"
    /\ args.traces["trace2"].pc = "running"
    /\ ret = [reader |-> "trace2", txid |-> Seed, writer |-> "trace1"]

\* =========================================================================
\* Coinbase origins of a backward trace (specification Spec).
\* =========================================================================
IsCoinbaseNode(node) == node.status = "coinbase"
\* The transactions a backward trace has visited and found to have a
\* coinbase input.
CoinbaseVisited == {t \in visited : IsCoinbase(chain_vin[t])}

\* C27: in a backward trace a visited transaction with a coinbase input has
\* exactly one node, of status coinbase, whose value is the sum of its
\* outputs; no edge leads to it; coinbase_origins is exactly the nodes of
\* status coinbase; the step that records the node adds no edge and queues
\* none of the inputs.
C27_CoinbaseState ==
    direction = "backward" =>
        /\ result.coinbase_origins = SelectSeq(Nodes, IsCoinbaseNode)
        /\ \A t \in CoinbaseVisited :
              /\ Cardinality(NodesOfTx(t)) = 1
              /\ \A n \in NodesOfTx(t) :
                    /\ Nodes[n].status = "coinbase"
                    /\ Nodes[n].value_sats = SumOfOutputs(chain_shape[t].vout)
              /\ \A e \in 1..Len(Edges) : Edges[e].to_txid # t
        /\ \A n \in 1..Len(Nodes) :
              Nodes[n].status = "coinbase" => Nodes[n].txid \in CoinbaseVisited
C27_CoinbaseStep ==
    (/\ direction = "backward"
     /\ Len(Nodes') = Len(Nodes) + 1
     /\ Last(Nodes').status = "coinbase")
        => /\ queue' = Tail(TruncatedQueue)
           /\ Edges' = Edges
           /\ result'.coinjoin_txids = result.coinjoin_txids
C27_CoinbaseOrigins == []C27_CoinbaseState /\ [][C27_CoinbaseStep]_vars
\* a coinbase origin whose recorded value is one satoshi short of the sum of
\* the outputs of its transaction
C27_Witness ==
    /\ direction = "backward" /\ pc = "done"
    /\ \E n \in 1..Len(Nodes) :
          /\ Nodes[n].status = "coinbase"
          /\ Nodes[n].value_sats
                = SumOfOutputs(chain_shape[Nodes[n].txid].vout) - 1

\* =========================================================================
\* KYCPrivacyTracer.trace_kyc_withdrawal (specification SpecKyc). The trace
\* variables hold the state of the KYC trace: queue holds its frames, result
\* its KYCTraceResult, consecutive_electrs_failures its _electrs_failures,
\* lookup_log the outputs gettxout reported spent.
\* Scores and confidences are in hundredths and ten-thousandths.
\* =========================================================================
KycTx == {"ta", "tb", "tc"}

\* DEPTH_PRESETS.get(depth_preset, DEPTH_PRESETS["standard"])["depth"]
KycPresets == {"quick", "standard", "deep", "thorough", "other"}
PresetDepth(preset) ==
    CASE preset = "quick" -> KYC_QUICK_DEPTH
      [] preset = "deep" -> KYC_DEEP_DEPTH
      [] preset = "thorough" -> KYC_THOROUGH_DEPTH
      [] OTHER -> KYC_STANDARD_DEPTH
\* max_depth = min(preset["depth"], self.MAX_DEPTH)
KycDepth(preset) ==
    IF PresetDepth(preset) < KYC_MAX_DEPTH THEN PresetDepth(preset)
    ELSE KYC_MAX_DEPTH

\* A transaction with three equal outputs and two inputs: scored, not a
\* CoinJoin.
SmallJoinTx == Shape(<<130000, 130000, 130000>>, 2)
\* A withdrawal of 0.0099 BTC in a transaction of its own.
ExchangeTx == Shape(<<990000>>, 1)
KycShapes == OrdinaryShapes \cup MixShapes \cup {SmallJoinTx, ExchangeTx}

\* _calculate_coinjoin_score, in hundredths
KycCoinjoinScore(tx) ==
    LET num_outputs == Len(tx.vout)
        num_inputs == tx.nin
        value_counts == ValueCounts(tx.vout)
        max_equal == CHOOSE m \in {value_counts[v] : v \in DOMAIN value_counts} :
                        \A v \in DOMAIN value_counts : value_counts[v] <= m
    IN  IF num_outputs < 2 THEN 0
        ELSE IF num_outputs = 5 /\ max_equal = 5 THEN 95
        ELSE IF max_equal >= 10 THEN 90
        ELSE IF max_equal >= 5 /\ num_inputs >= 3 THEN 75
        ELSE IF max_equal >= 3 /\ num_inputs >= 2 THEN 50
        ELSE 0

\* the test with the threshold excluded and raised
MutIsCoinjoin(cj_score) == cj_score > 75
\* is_coinjoin = cj_score >= self.COINJOIN_THRESHOLD
IsCoinjoin(cj_score) == cj_score >= COINJOIN_THRESHOLD

\* _detect_change_output, in hundredths. The node answers getrawtransaction
\* with verbose = True: its inputs carry no prevout, so the address and
\* script-type heuristics find nothing to compare with.
MaxOutput(vout) ==
    CHOOSE m \in {IntSats(vout[i]) : i \in 1..Len(vout)} :
        \A i \in 1..Len(vout) : IntSats(vout[i]) <= m
ChangeProbability(tx, idx) ==
    LET output_value == IntSats(tx.vout[idx + 1])
        \* (value_btc * 1000) % 1 == 0: a multiple of 0.001 BTC
        not_round == output_value % 100000 # 0
        smaller == output_value < MaxOutput(tx.vout)
        last == idx = Len(tx.vout) - 1
    IN  (IF not_round THEN 15 ELSE 0) + (IF smaller THEN 10 ELSE 0)
        + (IF last THEN 5 ELSE 0)
\* return probability > 0.3, min(probability, 0.95)
IsChange(tx, idx) == ChangeProbability(tx, idx) > 30

\* PathNode(...)
PathNode(txid, vout, tx, cj_count, depth) ==
    [txid |-> txid, vout |-> vout,
     value_sats |-> IntSats(tx.vout[vout + 1]),
     is_coinjoin |-> IsCoinjoin(KycCoinjoinScore(tx)),
     coinjoin_score |-> KycCoinjoinScore(tx),
     coinjoin_count_in_path |-> cj_count,
     depth |-> depth,
     is_change |-> IsChange(tx, vout),
     change_probability |-> ChangeProbability(tx, vout)]

\* _calculate_path_confidence, in ten-thousandths: the factors are in tenths
LengthFactor(path_length) ==
    IF path_length = 1 THEN 10
    ELSE IF path_length <= 3 THEN 9
    ELSE IF path_length <= 6 THEN 7
    ELSE 5
CoinjoinsIn(path) == Cardinality({i \in 1..Len(path) : path[i].is_coinjoin})
CoinjoinFactor(coinjoins) ==
    IF coinjoins = 0 THEN 10 ELSE IF coinjoins = 1 THEN 4 ELSE 1
\* the factor with the bands closed below: a ratio of 0.5 in the band of 0.8
\* and a ratio of 0.1 in the band of 0.6
MutValueFactor(final_value, original_value) ==
    LET original == IF original_value > 1 THEN original_value ELSE 1 IN
    IF 10 * final_value > 9 * original THEN 10
    ELSE IF 10 * final_value >= 5 * original THEN 8
    ELSE IF 10 * final_value >= original THEN 6
    ELSE 4
\* The quotient of two amounts compares with 0.9, 0.5 and 0.1 as the exact
\* ratio does: the division rounds to the nearest double, which for a ratio of
\* exactly 0.5 or 0.1 is the literal itself.
\* value_ratio = final_value / max(original_value, 1)
ValueFactor(final_value, original_value) ==
    LET original == IF original_value > 1 THEN original_value ELSE 1 IN
    IF 10 * final_value > 9 * original THEN 10
    ELSE IF 10 * final_value > 5 * original THEN 8
    ELSE IF 10 * final_value > original THEN 6
    ELSE 4
Clamp(x, lo, hi) == IF x < lo THEN lo ELSE IF x > hi THEN hi ELSE x
\* the confidence without the factor for CoinJoins
MutPathConfidence(path, original_value) ==
    IF path = <<>> THEN 0
    ELSE Clamp(100 * LengthFactor(Len(path))
               * ValueFactor(path[Len(path)].value_sats, original_value),
               0, 10000)
\* no node of a path is flagged as change (IsChange), so factor 4 is not
\* applied
PathConfidence(path, original_value) ==
    IF path = <<>> THEN 0
    ELSE Clamp(10 * LengthFactor(Len(path)) * CoinjoinFactor(CoinjoinsIn(path))
               * ValueFactor(path[Len(path)].value_sats, original_value),
               0, 10000)

\* _get_confidence_level
ConfidenceLevel(score) ==
    IF score >= 7000 THEN "high"
    ELSE IF score >= 4000 THEN "medium"
    ELSE IF score >= 2000 THEN "low"
    ELSE "negligible"

\* ProbableDestination(...); terminal is the factor of the terminal status
\* in tenths
ProbableDestination(value_sats, conf, level, cj_count, status, path) ==
    [value_sats |-> value_sats,
     confidence_score |-> conf,
     confidence_level |-> level,
     path_length |-> Len(path),
     coinjoins_passed |-> cj_count,
     trail_status |-> status,
     path |-> path]


\* the result constructed with the score of a trace that found nothing
MutKYCTraceResult(depth, enabled) ==
    [original_value_sats |-> 0, trace_depth |-> depth,
     probable_destinations |-> <<>>,
     total_traced_sats |-> 0, total_untraceable_sats |-> 0,
     coinjoins_encountered |-> 0,
     overall_privacy_score |-> [whole |-> 100, num |-> 0, den |-> 1],
     privacy_rating |-> "excellent",
     warnings |-> IF enabled THEN <<>>
                  ELSE <<[kind |-> "Electrs not available", at |-> <<>>]>>,
     electrs_enabled |-> enabled,
     start_vout |-> None, destinations |-> <<>>, coinjoin_txids |-> {}]

\* KYCTraceResult(...) as constructed at the start of the trace, with the
\* locals start_vout, destinations and coinjoin_txids of trace_kyc_withdrawal
NoScore == [whole |-> 0, num |-> 0, den |-> 1]
KYCTraceResult(depth, enabled) ==
    [original_value_sats |-> 0, trace_depth |-> depth,
     probable_destinations |-> <<>>,
     total_traced_sats |-> 0, total_untraceable_sats |-> 0,
     coinjoins_encountered |-> 0,
     overall_privacy_score |-> NoScore, privacy_rating |-> "unknown",
     warnings |-> IF enabled THEN <<>>
                  ELSE <<Warn("Electrs not available", <<>>)>>,
     electrs_enabled |-> enabled,
     start_vout |-> None, destinations |-> <<>>, coinjoin_txids |-> {}]

\* A frame of the queue: (txid, vout, depth, cj_count, path, tracked_value)
Frame(txid, vout, depth, cj_count, path, tracked_value) ==
    [txid |-> txid, vout |-> vout, depth |-> depth, cj_count |-> cj_count,
     path |-> path, tracked_value |-> tracked_value]

AddDestination(res, dest) == [res EXCEPT !.destinations = Append(@, dest)]

\* the destinations left in the order they were found
MutSortedByConfidence(dests) == dests

\* destinations.sort(key=lambda d: d.confidence_score, reverse=True): stable,
\* the destinations of equal confidence keep their order
RECURSIVE SortedByConfidence(_)
SortedByConfidence(dests) ==
    IF dests = <<>> THEN <<>>
    ELSE LET front == SortedByConfidence(SubSeq(dests, 1, Len(dests) - 1))
             d == dests[Len(dests)]
             before == SelectSeq(front,
                         LAMBDA x : x.confidence_score >= d.confidence_score)
             after == SelectSeq(front,
                         LAMBDA x : x.confidence_score < d.confidence_score)
         IN  before \o <<d>> \o after

RECURSIVE PathLengthSum(_)
PathLengthSum(dests) ==
    IF dests = <<>> THEN 0
    ELSE Head(dests).path_length + PathLengthSum(Tail(dests))

\* _calculate_overall_privacy: the score as whole + num / den, exactly
OverallPrivacy(res) ==
    LET dests == res.probable_destinations
        n == Len(dests)
        total == res.original_value_sats
        den1 == IF total > 0 THEN total ELSE 1
        scaled == IF total > 0 THEN 40 * res.total_untraceable_sats ELSE 0
        cj_points == IF res.coinjoins_encountered >= 2 THEN 30
                     ELSE IF res.coinjoins_encountered = 1 THEN 15 ELSE 0
        high_conf == Cardinality({i \in 1..n : dests[i].confidence_level = "high"})
        conf_points == IF high_conf = 0 THEN 20
                       ELSE IF high_conf = 1 THEN 5 ELSE 0
        twice == 2 * PathLengthSum(dests)
        capped == twice >= 10 * n
        path_whole == IF capped THEN 10 ELSE twice \div n
        path_rest == IF capped THEN 0 ELSE twice % n
        frac == (scaled % den1) * n + path_rest * den1
        den == den1 * n
        whole == (scaled \div den1) + cj_points + conf_points + path_whole
                    + (frac \div den)
    IN  IF n = 0 THEN [whole |-> 100, num |-> 0, den |-> 1]
        ELSE IF whole >= 100 THEN [whole |-> 100, num |-> 0, den |-> 1]
        ELSE [whole |-> whole, num |-> frac % den, den |-> den]

\* _get_privacy_rating
PrivacyRating(score) ==
    IF score.whole >= 80 THEN "excellent"
    ELSE IF score.whole >= 60 THEN "good"
    ELSE IF score.whole >= 40 THEN "moderate"
    ELSE IF score.whole >= 20 THEN "poor"
    ELSE "very_poor"


\* The state in which trace_kyc_withdrawal fetches the exchange transaction.
InitKyc ==
    /\ ClientIdle
    /\ WireIdle
    /\ NoFunctionCall
    /\ \E preset \in KycPresets, cfg \in BOOLEAN :
        /\ pc = "seed"
        /\ direction = "kyc"
        /\ max_depth = KycDepth(preset)
        /\ electrs = cfg
        /\ connected = cfg
        /\ result = KYCTraceResult(KycDepth(preset), cfg)
    /\ queue = <<>>
    /\ visited = {}
    /\ tx_count = 0
    /\ consecutive_electrs_failures = 0
    /\ electrs_disabled = FALSE
    /\ electrs_lookup_count = 0
    /\ lookup_log = <<>>
    /\ tx_cache = {}
    /\ chain_nvout = [t \in Tx |-> 0]
    /\ chain_vin = [t \in Tx |-> <<>>]
    /\ chain_shape = [t \in Tx |-> Unread]
    /\ expired = FALSE

kycRest == <<direction, max_depth, electrs, electrs_disabled,
             electrs_lookup_count, chain_nvout, chain_vin,
             connected, expired, otherVars>>

\* The exchange transaction is fetched and the output paying
\* destination_address looked for: found at index start, or not at all.
KycSeed ==
    /\ pc = "seed" /\ direction = "kyc"
    /\ UNCHANGED <<kycRest, visited, tx_count, consecutive_electrs_failures,
                   lookup_log>>
    /\ \E kind \in RpcTxKinds :
        IF ~GotTransaction(Seed, kind)
        THEN /\ result' = AddWarning(result,
                                     Warn("Transaction not found", <<Seed>>))
             /\ pc' = "done"
             /\ UNCHANGED <<queue, tx_cache, chain_shape>>
        ELSE \E shape \in KycShapes, found \in BOOLEAN :
               \E start \in {0, Len(shape.vout) - 1} :
                 /\ tx_cache' = CacheAfter(tx_cache, Seed, kind)
                 /\ chain_shape' = [chain_shape EXCEPT ![Seed] = shape]
                 /\ IF ~found
                    THEN /\ start = 0
                         /\ result' = AddWarning(result,
                                 Warn("Destination address not found", <<Seed>>))
                         /\ pc' = "done"
                         /\ queue' = queue
                    ELSE LET start_value == IntSats(shape.vout[start + 1]) IN
                         /\ result' = [result EXCEPT
                                          !.original_value_sats = start_value,
                                          !.start_vout = start]
                         /\ queue' = <<Frame(Seed, start, 0, 0, <<>>,
                                             start_value)>>
                         /\ pc' = "loop"

\* while queue and tx_count < self.MAX_TRANSACTIONS
KycLoopGuard == queue # <<>> /\ tx_count < KYC_MAX_TRANSACTIONS

\* if (current_txid, current_vout) in visited: continue
KycSkip(q, res0) ==
    /\ queue' = q
    /\ result' = res0
    /\ UNCHANGED <<pc, visited, tx_count, consecutive_electrs_failures,
                   tx_cache, chain_shape, lookup_log>>

\* if depth > max_depth: a destination when the path is not empty
KycDepthLimit(cur, q, res0) ==
    LET conf == PathConfidence(cur.path, res0.original_value_sats)
        dest == ProbableDestination(cur.tracked_value, (conf * 5) \div 10,
                                    ConfidenceLevel((conf * 5) \div 10),
                                    cur.cj_count, "depth_limit", cur.path)
    IN
    /\ queue' = q
    /\ visited' = visited \cup {<<cur.txid, cur.vout>>}
    /\ result' = IF cur.path # <<>> THEN AddDestination(res0, dest) ELSE res0
    /\ UNCHANGED <<pc, tx_count, consecutive_electrs_failures, tx_cache,
                   chain_shape, lookup_log>>

\* The outputs of txid that gettxout has reported spent.
SpentOutputsOf(txid) ==
    Cardinality({i \in 1..Len(lookup_log) : lookup_log[i][1] = txid})

\* The transactions the chain holds after txid, and what the node returns
\* for one of them the first time it is fetched.
KycSpenders(txid) == Spenders(txid) \cap KycTx
KycShapeChoices(txid) ==
    IF chain_shape[txid] # Unread THEN {chain_shape[txid]} ELSE KycShapes

\* the frames queued at the depth of the output spent
MutKycSpendingOutputs(spender, shape, frame, cj_count, path, seen) ==
    SelectSeq([i \in 1..Len(shape.vout) |->
                  [txid |-> spender, vout |-> i - 1, depth |-> frame.depth,
                   cj_count |-> cj_count, path |-> path,
                   tracked_value |-> IntSats(shape.vout[i])]],
              LAMBDA f : <<f.txid, f.vout>> \notin seen)
\* for out_idx, out in enumerate(spending_tx["vout"]): the frames queued
KycSpendingOutputs(spender, shape, frame, cj_count, path, seen) ==
    SelectSeq([i \in 1..Len(shape.vout) |->
                  Frame(spender, i - 1, frame.depth + 1, cj_count, path,
                        IntSats(shape.vout[i]))],
              LAMBDA f : <<f.txid, f.vout>> \notin seen)

\* The rest of the iteration for an entry within the depth: the transaction
\* is in the cache since the seeding or since its lookup.
KycVisit(cur, q, res0) ==
    LET txid == cur.txid
        tx == chain_shape[txid]
        value_sats == IntSats(tx.vout[cur.vout + 1])
        is_coinjoin == IsCoinjoin(KycCoinjoinScore(tx))
        current_cj_count == IF is_coinjoin THEN cur.cj_count + 1
                            ELSE cur.cj_count
        res1 == IF is_coinjoin
                THEN [res0 EXCEPT !.coinjoin_txids = @ \cup {txid}] ELSE res0
        node == PathNode(txid, cur.vout, tx, current_cj_count, cur.depth)
        current_path == Append(cur.path, node)
        conf == PathConfidence(current_path, res0.original_value_sats)
        seen == visited \cup {<<txid, cur.vout>>}
        Dest(score, level, status) ==
            ProbableDestination(value_sats, score, level, current_cj_count,
                                status, current_path)
    IN
    /\ visited' = seen
    /\ tx_count' = tx_count + 1
    /\ tx_cache' = tx_cache
    /\ IF current_cj_count >= MAX_COINJOINS_BEFORE_COLD
       THEN \* the trail is cold: a destination, and nothing else is asked
            /\ result' = [AddDestination(res1,
                              Dest(conf, ConfidenceLevel(conf), "cold"))
                            EXCEPT !.total_untraceable_sats = @ + value_sats]
            /\ queue' = q
            /\ UNCHANGED <<pc, consecutive_electrs_failures, chain_shape,
                           lookup_log>>
       ELSE \/ \* rpc.get_tx_out raises
               /\ pc' = "raised"
               /\ queue' = q
               /\ result' = res1
               /\ UNCHANGED <<consecutive_electrs_failures, chain_shape,
                              lookup_log>>
            \/ \* unspent: a current holding
               /\ result' = [AddDestination(res1,
                                Dest(conf, ConfidenceLevel(conf), "dead_end"))
                               EXCEPT !.total_traced_sats = @ + value_sats]
               /\ queue' = q
               /\ UNCHANGED <<pc, consecutive_electrs_failures, chain_shape,
                              lookup_log>>
            \/ \* spent
               /\ SpentOutputsOf(txid) < KycMaxSpent
               /\ lookup_log' = Append(lookup_log, <<txid, cur.vout>>)
               /\ \E address \in BOOLEAN :
                 IF ~(electrs /\ address)
                 THEN /\ result' = AddDestination(res1,
                                     Dest((conf * 5) \div 10,
                                          ConfidenceLevel((conf * 5) \div 10),
                                          "lost"))
                      /\ queue' = q
                      /\ UNCHANGED <<pc, consecutive_electrs_failures,
                                     chain_shape>>
                 ELSE \/ \* _find_spending_tx returns the spender, fetched
                         \* and cached during the lookup
                         \E spender \in KycSpenders(txid) :
                           \E shape \in KycShapeChoices(spender) :
                             /\ chain_shape' =
                                   [chain_shape EXCEPT ![spender] = shape]
                             /\ queue' = q \o KycSpendingOutputs(spender,
                                             shape, cur, current_cj_count,
                                             current_path, seen)
                             /\ result' = res1
                             /\ UNCHANGED <<pc, consecutive_electrs_failures>>
                      \/ \* it returns None: nothing spends the output in
                         \* the history (failed = FALSE) or the lookup
                         \* raised (failed = TRUE)
                         \E failed \in BOOLEAN :
                             /\ consecutive_electrs_failures' =
                                   IF failed
                                   THEN consecutive_electrs_failures + 1
                                   ELSE consecutive_electrs_failures
                             /\ result' = AddDestination(res1,
                                            Dest((conf * 3) \div 10, "low",
                                                 "lost"))
                             /\ queue' = q
                             /\ UNCHANGED <<pc, chain_shape>>

\* One iteration of the while loop of trace_kyc_withdrawal.
KycIter ==
    /\ pc = "loop" /\ direction = "kyc"
    /\ UNCHANGED kycRest
    /\ KycLoopGuard
    /\ LET truncated == Len(queue) > KYC_MAX_QUEUE_SIZE
           q0 == IF truncated THEN SubSeq(queue, 1, KYC_MAX_QUEUE_SIZE)
                 ELSE queue
           res0 == IF truncated
                   THEN AddWarning(result, Warn("Queue size exceeded", <<>>))
                   ELSE result
           cur == Head(q0)
           q == Tail(q0)
       IN  IF <<cur.txid, cur.vout>> \in visited THEN KycSkip(q, res0)
           ELSE IF cur.depth > max_depth THEN KycDepthLimit(cur, q, res0)
           ELSE KycVisit(cur, q, res0)

\* After the loop: the destinations are sorted, the failed lookups reported
\* and the scores computed; the result is returned.
KycFinish ==
    /\ pc = "loop" /\ direction = "kyc"
    /\ UNCHANGED <<kycRest, queue, visited, tx_count, tx_cache, chain_shape,
                   lookup_log>>
    /\ ~KycLoopGuard
    /\ LET res1 == [result EXCEPT
                      !.probable_destinations =
                          SortedByConfidence(result.destinations),
                      !.coinjoins_encountered =
                          Cardinality(result.coinjoin_txids)]
           res2 == IF consecutive_electrs_failures > 0
                   THEN AddWarning(res1, Warn("Electrs connection issues",
                                        <<consecutive_electrs_failures>>))
                   ELSE res1
           score == OverallPrivacy(res2)
       IN  /\ result' = [res2 EXCEPT !.overall_privacy_score = score,
                                     !.privacy_rating = PrivacyRating(score)]
           /\ consecutive_electrs_failures' = 0
           /\ pc' = "done"

NextKyc == KycSeed \/ KycIter \/ KycFinish
SpecKyc == InitKyc /\ [][NextKyc]_vars


\* ------------------------------------------------- claims on a KYC trace
Destinations == result.destinations
\* The paths the trace holds: of its destinations and of its queued frames.
CountsAlong(path) ==
    \A k \in 1..Len(path) :
        /\ path[k].is_coinjoin <=> path[k].coinjoin_score >= COINJOIN_THRESHOLD
        /\ path[k].coinjoin_count_in_path =
              Cardinality({j \in 1..k : path[j].is_coinjoin})
        /\ k < Len(path) =>
              path[k].coinjoin_count_in_path < MAX_COINJOINS_BEFORE_COLD

\* C28: the CoinJoin count of a path is incremented at the node whose
\* transaction scores at least 0.7, before the decision to stop, and a path
\* ends as cold exactly at the node where its count reaches 2: the node is a
\* destination, no gettxout and no lookup is made for it and nothing is
\* queued from it.
C28_ColdState ==
    direction = "kyc" =>
        /\ \A i \in 1..Len(Destinations) :
              LET d == Destinations[i] IN
              /\ CountsAlong(d.path)
              /\ d.coinjoins_passed <= MAX_COINJOINS_BEFORE_COLD
              /\ d.trail_status = "cold"
                    <=> d.coinjoins_passed = MAX_COINJOINS_BEFORE_COLD
              /\ d.trail_status = "cold" =>
                    /\ Last(d.path).is_coinjoin
                    /\ Last(d.path).coinjoin_count_in_path
                          = MAX_COINJOINS_BEFORE_COLD
              /\ d.trail_status # "depth_limit" =>
                    d.coinjoins_passed = Last(d.path).coinjoin_count_in_path
        /\ \A i \in 1..Len(queue) :
              /\ CountsAlong(queue[i].path)
              /\ queue[i].cj_count < MAX_COINJOINS_BEFORE_COLD
              /\ queue[i].path # <<>> =>
                    queue[i].cj_count
                        = Last(queue[i].path).coinjoin_count_in_path
C28_ColdStep ==
    (/\ direction = "kyc"
     /\ Len(Destinations') = Len(Destinations) + 1
     /\ Last(Destinations').trail_status = "cold")
        => /\ queue' = Tail(IF Len(queue) > KYC_MAX_QUEUE_SIZE
                            THEN SubSeq(queue, 1, KYC_MAX_QUEUE_SIZE)
                            ELSE queue)
           /\ lookup_log' = lookup_log
           /\ consecutive_electrs_failures' = consecutive_electrs_failures
           /\ chain_shape' = chain_shape
           /\ pc' = "loop"
C28_ColdAtSecondCoinjoin == []C28_ColdState /\ [][C28_ColdStep]_vars
\* a path through an ordinary output and two CoinJoins ended as cold, the
\* first of them scoring 0.75
C28_Witness ==
    /\ direction = "kyc" /\ pc = "done"
    /\ \E i \in 1..Len(Destinations) :
          LET d == Destinations[i] IN
          /\ d.trail_status = "cold"
          /\ Len(d.path) = 3
          /\ ~d.path[1].is_coinjoin
          /\ d.path[2].coinjoin_score = 75
          /\ d.path[3].coinjoin_count_in_path = 2


\* The trace returned and followed the seed output into a CoinJoin mix1 and
\* an output of mix1 into a second CoinJoin mix2, one of whose outputs it
\* visited.
ThroughTwoMixes(d) ==
    /\ Len(d.path) = 3
    /\ d.path[1].txid = Seed /\ ~d.path[1].is_coinjoin
    /\ d.path[2].is_coinjoin
    /\ d.path[3].is_coinjoin
TwoMixes ==
    /\ direction = "kyc" /\ pc = "done"
    /\ \E i \in 1..Len(result.probable_destinations) :
          ThroughTwoMixes(result.probable_destinations[i])

KycReturned == direction = "kyc" /\ pc = "done"

\* C30: in every KYC trace result with at least one destination every
\* destination has a confidence_score between 0 and 1 (0 and 10000
\* ten-thousandths) and probable_destinations is ordered by confidence_score,
\* non-increasing.
C30_ConfidenceSorted ==
    (KycReturned /\ result.probable_destinations # <<>>) =>
        LET dests == result.probable_destinations IN
        /\ \A i \in 1..Len(dests) :
              dests[i].confidence_score \in 0..10000
        /\ \A i \in 1..(Len(dests) - 1) :
              dests[i].confidence_score >= dests[i + 1].confidence_score

\* a returned result whose destinations were found in another order than the
\* one they are returned in, with different confidence scores
C30_Witness ==
    /\ KycReturned
    /\ Len(result.probable_destinations) >= 2
    /\ result.probable_destinations # result.destinations
    /\ result.probable_destinations[1].confidence_score >
          result.probable_destinations[Len(result.probable_destinations)]
              .confidence_score

\* ---------------------------------------------------------------------------
\* The level of a destination against its score

\* C31: every destination emitted by trace_kyc_withdrawal, whatever its
\* trail_status, has as confidence_level the band of its final
\* confidence_score: high from 0.7, medium from 0.4, low from 0.2 and
\* negligible below.
C31_LevelIsBand ==
    \A i \in 1..Len(result.destinations) :
        LET d == result.destinations[i] IN
        direction = "kyc" =>
            d.confidence_level = ConfidenceLevel(d.confidence_score)

\* a returned result with a lost destination whose score is below 0.2 and
\* whose level is low
C31_Witness ==
    /\ KycReturned
    /\ result.electrs_enabled
    /\ \E i \in 1..Len(result.probable_destinations) :
          LET d == result.probable_destinations[i] IN
          /\ d.trail_status = "lost"
          /\ d.confidence_score < 2000
          /\ d.confidence_level = "low"

\* =========================================================================
\* The value factor of _calculate_path_confidence (specification SpecValue),
\* for the value of the last node of a path and the value of the withdrawal,
\* in satoshi.
\* =========================================================================
InitValue ==
    /\ OnlyTheCall
    /\ ret = Pending
    /\ cached = [t \in Tx |-> Absent]
    /\ \E final \in 0..ValueRange, original \in 0..ValueRange :
          args = [final_value |-> final, original_value |-> original,
                  called |-> FALSE]

ValueSimilarity ==
    /\ ~args.called
    /\ args' = [args EXCEPT !.called = TRUE]
    /\ ret' = ValueFactor(args.final_value, args.original_value)
    /\ UNCHANGED <<cached, callRest>>

SpecValue == InitValue /\ [][ValueSimilarity]_vars

\* C32 as stated: the factor (in tenths) is 0.8 for a ratio in [0.5, 0.9],
\* 0.6 for a ratio in [0.1, 0.5), 0.4 below 0.1 and 1 above 0.9; a ratio of
\* exactly 0.5 gets 0.8 and a ratio of exactly 0.1 gets 0.6.
C32_ClosedBelow ==
    (args.called /\ args.original_value > 0) =>
        LET f == 10 * args.final_value
            o == args.original_value
        IN  /\ f > 9 * o => ret = 10
            /\ (f >= 5 * o /\ f <= 9 * o) => ret = 8
            /\ (f >= o /\ f < 5 * o) => ret = 6
            /\ f < o => ret = 4

\* C32: with the ratio final value / max(start value, 1), the factor is 0.8
\* for a ratio in (0.5, 0.9], 0.6 for a ratio in (0.1, 0.5], 0.4 for a ratio
\* of at most 0.1 and 1 above 0.9: a ratio of exactly 0.5 gets 0.6 and a ratio
\* of exactly 0.1 gets 0.4.
C32_OpenBelow ==
    args.called =>
        LET f == 10 * args.final_value
            o == IF args.original_value > 1 THEN args.original_value ELSE 1
        IN  /\ f > 9 * o => ret = 10
            /\ (f > 5 * o /\ f <= 9 * o) => ret = 8
            /\ (f > o /\ f <= 5 * o) => ret = 6
            /\ f <= o => ret = 4

\* the factor was computed for a ratio of exactly 0.5 and is 0.6
C32_Witness ==
    /\ args.called
    /\ args.original_value > 0
    /\ 2 * args.final_value = args.original_value
    /\ ret = 6

\* ---------------------------------------------------------------------------
\* Results without a destination

\* The trace returned before its loop: the exchange transaction was not
\* found, or no output of it pays the destination address.
ReturnedEarly ==
    /\ KycReturned
    /\ \E i \in 1..Len(result.warnings) :
          result.warnings[i].kind \in
              {"Transaction not found", "Destination address not found"}

C34_Step ==
    /\ request_id' >= request_id
    /\ \A c \in Callers : \A k \in Conns :
          Writes(c, k) => /\ request_id' = request_id + 1
                          /\ lock = (IF callers[c].pc = "lock" THEN 0 ELSE c)
                          /\ lock' = c
    /\ request_id' # request_id =>
          \E c \in Callers : \E k \in Conns : Writes(c, k)

\* C34: the ids of the requests written to the Electrum connection are
\* strictly increasing in the order the requests are sent, over all callers
\* and all retries: an id is taken by the holder of the lock, in the step
\* that writes the request, as one more than the last id taken, and the
\* counter changes in no other step, reconnections included.
C34_IdsIncrease == [][C34_Step]_vars

\* a caller's retry is in flight on a connection opened after the one that
\* carried the earlier requests, another caller has called as well, and the
\* retry carries the third id or a later one
C34_Witness ==
    \E c, d \in Callers :
        /\ c # d
        /\ callers[c].pc = "read"
        /\ callers[c].attempt >= 1
        /\ callers[d].calls >= 1
        /\ request_id >= 3

\* ---------------------------------------------------------------------------
\* The untraceable part of the withdrawal

\* C35: in every KYC trace result total_untraceable_sats never exceeds
\* original_value_sats, so that the proportion untraceable contributes
\* between 0 and 40 points to the privacy score, also when several outputs of
\* the second CoinJoin are reached.
C35_UntraceableBounded ==
    KycReturned =>
        /\ result.total_untraceable_sats >= 0
        /\ result.total_untraceable_sats <= result.original_value_sats

\* a returned result with two cold destinations or more, whose values add up
\* to more than the withdrawal: their share of the score is above 40 points
C35_Witness ==
    /\ KycReturned
    /\ result.original_value_sats > 0
    /\ Cardinality({i \in 1..Len(result.probable_destinations) :
          result.probable_destinations[i].trail_status = "cold"}) >= 2
    /\ 40 * result.total_untraceable_sats > 40 * result.original_value_sats

\* ---------------------------------------------------------------------------
\* disconnect() of the shared client against the other callers

\* Connection k has a request of caller d in flight: d awaits its response.
InFlight(d, k) == callers[d].pc = "read" /\ callers[d].rconn = k

\* No step closes a connection on which another caller's request is in
\* flight, and no step clears a writer that is open.
C36_Step ==
    /\ \A k \in Conns : \A d \in Callers :
          (InFlight(d, k) /\ ~conns[k].closed /\ callers'[d] = callers[d])
              => ~conns'[k].closed
    /\ (writer # 0 /\ writer' = 0) => conns[writer].closed

\* connected = true implies an open reader and writer.
C36_Connected ==
    connected => (reader # 0 /\ writer # 0 /\ ~conns[writer].closed)

KycCallAt(pos, lookups, failed) ==
    [pc |-> pos, lookups |-> lookups, failed |-> failed]
NoReport == [returned |-> FALSE, warned |-> FALSE, failures |-> 0]

InitKycPair ==
    /\ OnlyTheCall
    /\ args = [electrs_failures |-> 0,
               traces |-> [k \in TraceNames |-> KycCallAt("idle", 0, 0)]]
    /\ ret = [k \in TraceNames |-> NoReport]
    /\ cached = [t \in Tx |-> Absent]

\* tracer = get_kyc_tracer(); await tracer.trace_kyc_withdrawal(...): the
\* call starts with self._electrs_failures = 0 and runs up to its first await
KycCallStarts ==
    \E k \in TraceNames :
        /\ args.traces[k].pc = "idle"
        /\ args' = [electrs_failures |-> 0,
                    traces |-> [args.traces EXCEPT
                                   ![k] = KycCallAt("running", 0, 0)]]
        /\ UNCHANGED <<ret, cached, callRest>>

\* await self._find_spending_tx(...): the lookup returns, or raises inside
\* and is counted (except Exception: self._electrs_failures = ... + 1)
KycLookup ==
    \E k \in TraceNames, fails \in BOOLEAN :
        LET t == args.traces[k] IN
        /\ t.pc = "running"
        /\ t.lookups < MaxKycLookups
        /\ args' = [electrs_failures |->
                        IF fails THEN args.electrs_failures + 1
                        ELSE args.electrs_failures,
                    traces |-> [args.traces EXCEPT
                        ![k] = KycCallAt("running", t.lookups + 1,
                                         IF fails THEN t.failed + 1
                                         ELSE t.failed)]]
        /\ UNCHANGED <<ret, cached, callRest>>

\* after the loop: if electrs_failures > 0 the warning is added with the
\* counter's value and the counter reset; the result is returned
KycCallReturns ==
    \E k \in TraceNames :
        LET n == args.electrs_failures IN
        /\ args.traces[k].pc = "running"
        /\ ret' = [ret EXCEPT ![k] = [returned |-> TRUE, warned |-> n > 0,
                                      failures |-> n]]
        /\ args' = [electrs_failures |-> 0,
                    traces |-> [args.traces EXCEPT ![k].pc = "done"]]
        /\ UNCHANGED <<cached, callRest>>

NextKycPair == KycCallStarts \/ KycLookup \/ KycCallReturns
SpecKycPair == InitKycPair /\ [][NextKycPair]_vars

\* C37: the number of failed lookups a KYC trace reports in its 'Electrs
\* connection issues' warning is the number of Electrum lookups that failed
\* during that trace, also when several calls run interleaved on the shared
\* analyser; a trace without a failed lookup of its own carries no such
\* warning.
C37_OwnFailuresReported ==
    \A k \in TraceNames :
        ret[k].returned =>
            /\ ret[k].warned <=> args.traces[k].failed > 0
            /\ ret[k].warned => ret[k].failures = args.traces[k].failed

\* a trace with a failed lookup returned without the warning: the other
\* call started after the failure
C37_Witness ==
    \E k \in TraceNames :
        /\ ret[k].returned
        /\ args.traces[k].failed > 0
        /\ ~ret[k].warned

\* ---------------------------------------------------------------------------
\* The path of a destination

\* C38: for every destination of a KYC trace, path is not empty, starts at
\* the seed output (exchange_txid, start_vout), has the nodes at depths 0, 1,
\* 2, ... in order, path_length is the length of path,
\* coinjoin_count_in_path is the running number of is_coinjoin nodes up to and
\* including each node, and coinjoins_passed is the number of is_coinjoin
\* nodes of path and at most 2.
C38_PathShape ==
    direction = "kyc" =>
        \A n \in 1..Len(result.destinations) :
            LET d == result.destinations[n]
                path == d.path
            IN  /\ path # <<>>
                /\ path[1].txid = Seed
                /\ path[1].vout = result.start_vout
                /\ \A i \in 1..Len(path) :
                      /\ path[i].depth = i - 1
                      /\ path[i].coinjoin_count_in_path =
                            Cardinality({j \in 1..i : path[j].is_coinjoin})
                /\ d.path_length = Len(path)
                /\ d.coinjoins_passed = CoinjoinsIn(path)
                /\ d.coinjoins_passed <= MAX_COINJOINS_BEFORE_COLD

\* a returned result with a destination at the depth limit, after a path of
\* two nodes or more through a CoinJoin, that started at the last output of
\* an exchange transaction with several outputs
C38_Witness ==
    /\ KycReturned
    /\ \E n \in 1..Len(result.probable_destinations) :
          LET d == result.probable_destinations[n] IN
          /\ d.trail_status = "depth_limit"
          /\ d.path_length >= 2
          /\ d.coinjoins_passed >= 1
          /\ d.path[1].vout > 0

\* ---------------------------------------------------------------------------
\* A KYC trace that a limit cut short

\* The result says that the trace was cut short.
KycCutShortWarned ==
    \E i \in 1..Len(result.warnings) :
        result.warnings[i].kind \in
            {"Queue size exceeded", "Transaction limit reached"}

\* The returned result of a trace that left entries in its queue is warned.
C39_Returned ==
    (KycReturned /\ ~ReturnedEarly /\ queue # <<>>) => KycCutShortWarned
\* A step that truncates the queue leaves the warning in the result.
C39_Truncation ==
    (direction = "kyc" /\ pc = "loop" /\ Len(queue) > KYC_MAX_QUEUE_SIZE
        /\ queue' # queue) => KycCutShortWarned'

\* C39: when a KYC trace stops because a limit is reached while entries are
\* still queued (its transaction cap is hit, or its queue was truncated), the
\* result carries a warning saying that the trace was cut short.
C39_CutShortIsWarned == []C39_Returned /\ [][C39_Truncation]_vars

\* the trace returned at its transaction cap with entries still queued, and
\* its result carries no warning at all
C39_Witness ==
    /\ KycReturned
    /\ tx_count = KYC_MAX_TRANSACTIONS
    /\ queue # <<>>
    /\ result.warnings = <<>>
    /\ result.probable_destinations # <<>>

\* ---------------------------------------------------------------------------
\* Nodes and edges of a forward trace

RECURSIVE ValueOfNodes(_)
ValueOfNodes(nodes) ==
    IF nodes = <<>> THEN 0
    ELSE Head(nodes).value_sats + ValueOfNodes(Tail(nodes))

\* C40: in every forward trace result each edge has a node with its
\* (from_txid, from_vout), of status spent, with spent_by_txid = to_txid and
\* the value_sats of the edge; each node has at most one outgoing edge; the
\* nodes appear in non-decreasing order of depth; and
\* total_value_traced_sats is the sum of value_sats over the nodes.
C40_ForwardGraph ==
    direction = "forward" =>
        /\ \A i \in 1..Len(Edges) :
              \E n \in 1..Len(Nodes) :
                  /\ Nodes[n].txid = Edges[i].from_txid
                  /\ Nodes[n].vout = Edges[i].from_vout
                  /\ Nodes[n].status = "spent"
                  /\ Nodes[n].spent_by_txid = Edges[i].to_txid
                  /\ Nodes[n].value_sats = Edges[i].value_sats
        /\ \A i, j \in 1..Len(Edges) :
              (Edges[i].from_txid = Edges[j].from_txid
                  /\ Edges[i].from_vout = Edges[j].from_vout) => i = j
        /\ \A m, n \in 1..Len(Nodes) :
              m < n => Nodes[m].depth <= Nodes[n].depth
        /\ result.total_value_traced_sats = ValueOfNodes(Nodes)

\* a returned forward trace with two edges, one of them leaving the second
\* output of its transaction, with nodes at three depths and a value traced
C40_Witness ==
    /\ direction = "forward" /\ pc = "done"
    /\ Len(Edges) >= 2
    /\ \E i \in 1..Len(Edges) :
          Edges[i].from_vout = 1 /\ Edges[i].value_sats > 0
    /\ \E n \in 1..Len(Nodes) : Nodes[n].depth = 2
    /\ result.total_value_traced_sats > Nodes[1].value_sats

====
